---- MODULE Spec2Model ----
(***************************************************************************)
(* Session state synchronizer of the DnD battle assistant server           *)
(* (src/unnamed/part_004): the in-memory registries of combat, dice and    *)
(* battlefield sessions, the socket handlers that mutate them, the events  *)
(* each handler emits, the persistence call it schedules, and the chunked  *)
(* background transfer with its timers.                                    *)
(*                                                                         *)
(* One action is one run of a handler (or of a timer callback): node's     *)
(* event loop runs each to completion.  emits and persists hold what the   *)
(* latest handler emitted and scheduled; last names the message it handled.*)
(* persistSessionData runs across several steps: each upsert it awaits is  *)
(* an entry of writes that the store answers, or fails, in a later step.   *)
(*                                                                         *)
(* The registries and their monsters and pieces are plain objects, so a    *)
(* lookup obj[key] also finds what Object.prototype gives every object:    *)
(* obj["__proto__"] is Object.prototype itself.  inherited holds the       *)
(* properties the handlers have put on it, which every object then reads   *)
(* where it has no property of its own.                                    *)
(***************************************************************************)
EXTENDS Integers, Sequences, FiniteSets, TLC

VARIABLES
    sessions,            \* sessions[sessionId] = [monsters, monsterOrder, lastUpdated]
    diceSessions,        \* diceSessions[sessionId] = [diceState, rollHistory, lastUpdated]
    battlefieldSessions, \* battlefieldSessions[sessionId] = [pieces, backgroundImage, scale, isGridVisible, pieceSize, lastUpdated]
    backgroundChunks,    \* backgroundChunks[imageId] = the transfer in progress
    timers,              \* pending setTimeout callbacks, by handle
    now,                 \* Date.now(), in milliseconds since the server started
    connected,           \* the sockets that are connected
    rooms,               \* rooms[socket] = the session ids the socket joined
    last,                \* the message (or timer) the latest step handled
    emits,               \* the events the latest step emitted, in order
    persists,            \* the persistSessionData calls the latest step issued
    insertionOrder,      \* history: per session, the monster ids in the order of the insertion that created them
    rollLog,             \* history: per session, every roll record since the last reset
    delivered,           \* history: per imageId, the <<index, chunk>> pairs the current transfer accepted
    db,                  \* the MongoDB collections: db[kind][sessionId] = the document stored
    writes,              \* the findOneAndUpdate calls the store has not answered yet
    proc,                \* the server process: running, stopping (shutdown awaits its writes) or exited, its exit
                         \* code, and whether an upsert (lost), one of shutdown's (failed), has failed
    snap,                \* history: the registries when shutdown began and when the process exited
    inherited,           \* the properties handlers have set on Object.prototype, which every object inherits
    storeOn              \* whether the store is part of the specification; if not, persists alone records the calls

vars == <<sessions, diceSessions, battlefieldSessions, backgroundChunks, timers, now,
          connected, rooms, last, emits, persists, insertionOrder, rollLog, delivered,
          db, writes, proc, snap, inherited, storeOn>>

(***************************************************************************)
(* Bounds and input alphabets                                              *)
(***************************************************************************)
Sockets == {"a", "b"}
SessionIds == {"s1", "s2"}
MonsterIds == {"m1", "m2"}
ImageIds == {"i1", "i2"}

\* ---- generic helpers ----
Put(f, k, v) == (k :> v) @@ f
Remove(f, k) == [x \in DOMAIN f \ {k} |-> f[x]]
Includes(seq, x) == \E i \in 1..Len(seq) : seq[i] = x
\* Array.prototype.indexOf, 1-based here; 0 when absent (-1 in JavaScript)
IndexOf(seq, x) == IF Includes(seq, x)
                   THEN CHOOSE i \in 1..Len(seq) : seq[i] = x /\ \A j \in 1..(i-1) : seq[j] # x
                   ELSE 0
\* Array.prototype.splice(index, 1)
Splice1(seq, i) == [j \in 1..(Len(seq) - 1) |-> IF j < i THEN seq[j] ELSE seq[j + 1]]
\* the names every plain object answers to without having them: obj["__proto__"]
InheritedKeys == {"__proto__"}
\* the functions every plain object answers to without having them: obj["constructor"]
ObjectMethods == {"constructor"}
\* obj[key] is truthy, for an object whose own values are all objects
Has(obj, key) == key \in DOMAIN obj \/ key \in InheritedKeys \/ key \in ObjectMethods
\* rec.fld !== undefined: a property of its own, or one found on Object.prototype
Defined(rec, fld) == fld \in DOMAIN rec \/ fld \in DOMAIN inherited
Get(rec, fld) == IF fld \in DOMAIN rec THEN rec[fld] ELSE inherited[fld]
\* a || d for a field of a message that may be missing
OrDefault(rec, fld, falsy, d) ==
    IF Defined(rec, fld) /\ Get(rec, fld) # falsy THEN Get(rec, fld) ELSE d
Min2(x, y) == IF x < y THEN x ELSE y
Max2(x, y) == IF x > y THEN x ELSE y

(***************************************************************************)
(* Registries                                                              *)
(***************************************************************************)
ResetSession(sessionId) ==
    Put(sessions, sessionId, [monsters |-> <<>>, monsterOrder |-> <<>>, lastUpdated |-> now])
NewSession == [monsters |-> <<>>, monsterOrder |-> <<>>, lastUpdated |-> now]
getSession(sessionId) ==
    IF sessionId \in DOMAIN sessions THEN sessions ELSE Put(sessions, sessionId, NewSession)

ZeroDiceState == [dice |-> [d4 |-> 0, d6 |-> 0, d8 |-> 0, d10 |-> 0, d12 |-> 0, d20 |-> 0],
                  advantage |-> FALSE, disadvantage |-> FALSE]
NewDiceSession == [diceState |-> ZeroDiceState, rollHistory |-> <<>>, lastUpdated |-> now]
getDiceSession(sessionId) ==
    IF sessionId \in DOMAIN diceSessions THEN diceSessions
    ELSE Put(diceSessions, sessionId, NewDiceSession)

NoImage == <<"null">>
DefaultPieceSize == 40
\* scale is kept in tenths: 10 is 1.0
DefaultScale == 10
GridHiddenBattlefield ==
    [pieces |-> <<>>, backgroundImage |-> NoImage, scale |-> DefaultScale,
     isGridVisible |-> FALSE, pieceSize |-> DefaultPieceSize, lastUpdated |-> now]
NewBattlefield == [pieces |-> <<>>, backgroundImage |-> NoImage, scale |-> DefaultScale,
                   isGridVisible |-> TRUE, pieceSize |-> DefaultPieceSize, lastUpdated |-> now]
getBattlefieldSession(sessionId) ==
    IF sessionId \in DOMAIN battlefieldSessions THEN battlefieldSessions
    ELSE Put(battlefieldSessions, sessionId, NewBattlefield)

(***************************************************************************)
(* Broadcast: io.to(room).emit, socket.to(room).emit, socket.emit          *)
(***************************************************************************)
Members(room) == {c \in connected : room \in rooms[c]}
ToNobody(room, name, data) ==
    [name |-> name, mode |-> "room", room |-> room, to |-> {}, data |-> data]
ToRoom(room, name, data) ==
    [name |-> name, mode |-> "room", room |-> room, to |-> Members(room), data |-> data]
ToRoomFrom(socket, room, name, data) ==
    [name |-> name, mode |-> "others", room |-> room, to |-> Members(room), data |-> data]
ToOthers(socket, room, name, data) ==
    [name |-> name, mode |-> "others", room |-> room, to |-> Members(room) \ {socket}, data |-> data]
ToEveryone(socket, name, data) ==
    [name |-> name, mode |-> "room", room |-> "", to |-> connected, data |-> data]
ToCaller(socket, name, data) ==
    [name |-> name, mode |-> "caller", room |-> "", to |-> {socket}, data |-> data]

Msg(type, socket, sessionId, arg) ==
    [type |-> type, socket |-> socket, sessionId |-> sessionId, arg |-> arg]

(***************************************************************************)
(* Persistence: persistSessionData upserts the combat, the dice and the    *)
(* battlefield document of a session one after the other, inside one try.  *)
(***************************************************************************)
Kinds == <<"combat", "dice", "battlefield">>
Registry(kind, S, D, B) ==
    CASE kind = "combat" -> S [] kind = "dice" -> D [] OTHER -> B

\* Object.values(pieces)
RECURSIVE ObjectValues(_)
ObjectValues(pieces) ==
    IF DOMAIN pieces = {} THEN <<>>
    ELSE LET k == CHOOSE x \in DOMAIN pieces : TRUE
         IN <<pieces[k]>> \o ObjectValues(Remove(pieces, k))

\* the $set document of the upsert of one kind, read from the registries S, D, B
UpdateOf(kind, sessionId, S, D, B) ==
    CASE kind = "combat" ->
           [monsters |-> S[sessionId].monsters, monsterOrder |-> S[sessionId].monsterOrder,
            lastUpdated |-> now]
      [] kind = "dice" ->
           [diceState |-> D[sessionId].diceState, rollHistory |-> D[sessionId].rollHistory,
            lastUpdated |-> now]
      [] OTHER ->
           [pieces |-> ObjectValues(B[sessionId].pieces),
            settings |-> [scale |-> B[sessionId].scale, gridVisible |-> B[sessionId].isGridVisible,
                          pieceSize |-> B[sessionId].pieceSize],
            background |-> [imageUrl |-> B[sessionId].backgroundImage],
            lastUpdated |-> B[sessionId].lastUpdated]

\* the first kind from position i on whose registry holds the session; 0 if none does
FirstKind(i, sessionId, S, D, B) ==
    IF \E j \in i..3 : sessionId \in DOMAIN Registry(Kinds[j], S, D, B)
    THEN CHOOSE j \in i..3 :
            /\ sessionId \in DOMAIN Registry(Kinds[j], S, D, B)
            /\ \A k \in i..(j - 1) : sessionId \notin DOMAIN Registry(Kinds[k], S, D, B)
    ELSE 0

\* the upsert a persistSessionData call awaits next, from position i on
WriteFor(i, sessionId, by, S, D, B) ==
    LET j == FirstKind(i, sessionId, S, D, B)
    IN IF j = 0 THEN {}
       ELSE {[sessionId |-> sessionId, stage |-> j, by |-> by,
              doc |-> UpdateOf(Kinds[j], sessionId, S, D, B)]}

persistSessionData(sessionId, by, S, D, B) == WriteFor(1, sessionId, by, S, D, B)

MaxWrites == 2

Registries == [sessions |-> sessions, diceSessions |-> diceSessions,
               battlefieldSessions |-> battlefieldSessions]

\* what every handler does to the store: the process is up, and each persistSessionData
\* call of the handler starts with its first upsert, read from the registries as the
\* handler leaves them
PersistingCalls ==
    /\ proc.state \in {"running", "stopping"}
    /\ (storeOn /\ persists' # <<>>) => Cardinality(writes) < MaxWrites
    /\ writes' = IF storeOn
                 THEN writes \cup UNION {persistSessionData(persists'[k], "handler", sessions',
                                                            diceSessions', battlefieldSessions') :
                                            k \in 1..Len(persists')}
                 ELSE writes
    /\ snap' = IF proc.state = "stopping"
                  /\ (persists' # <<>> \/ Registries' # Registries)
               THEN [snap EXCEPT !.quiet = FALSE]
               ELSE snap
    /\ UNCHANGED <<db, proc, storeOn>>
\* a handler that leaves Object.prototype alone
Persisting == PersistingCalls /\ UNCHANGED inherited

Start ==
    /\ sessions = <<>>
    /\ diceSessions = <<>>
    /\ battlefieldSessions = <<>>
    /\ backgroundChunks = <<>>
    /\ timers = <<>>
    /\ now = 0
    /\ connected = Sockets
    /\ rooms = [c \in Sockets |-> {}]
    /\ last = Msg("init", "", "", <<>>)
    /\ emits = <<>>
    /\ persists = <<>>
    /\ insertionOrder = [s \in SessionIds |-> <<>>]
    /\ rollLog = [s \in SessionIds |-> <<>>]
    /\ delivered = [i \in ImageIds |-> {}]
    /\ db = [combat |-> <<>>, dice |-> <<>>, battlefield |-> <<>>]
    /\ writes = {}
    /\ proc = [state |-> "running", code |-> -1, lost |-> FALSE, failed |-> FALSE,
               rejected |-> FALSE, boots |-> 0]
    /\ snap = [signal |-> <<>>, exit |-> <<>>, quiet |-> TRUE]
    /\ inherited = <<>>

\* the store is left out: persists records the calls
Init == Start /\ storeOn = FALSE
\* the store is part of the specification
InitStore == Start /\ storeOn = TRUE

(***************************************************************************)
(* join-session                                                            *)
(***************************************************************************)
JoinSession(socket, sessionId) ==
    /\ socket \in connected
    /\ rooms' = [rooms EXCEPT ![socket] = @ \cup {sessionId}]
    /\ sessions' = getSession(sessionId)
    /\ diceSessions' = getDiceSession(sessionId)
    /\ battlefieldSessions' = getBattlefieldSession(sessionId)
    /\ emits' = << ToCaller(socket, "session-updated", sessions'[sessionId]),
                   ToCaller(socket, "dice-state-updated", diceSessions'[sessionId].diceState),
                   ToCaller(socket, "roll-history-sync", diceSessions'[sessionId].rollHistory),
                   ToCaller(socket, "battlefield-state-updated",
                            [state |-> battlefieldSessions'[sessionId]]) >>
    /\ persists' = <<>>
    /\ last' = Msg("join-session", socket, sessionId, <<>>)
    /\ UNCHANGED <<backgroundChunks, timers, now, connected, insertionOrder, rollLog, delivered>>
    /\ Persisting

(***************************************************************************)
(* Combat roster: add-monster, update-hp, update-name,                      *)
(* batch-delete-monsters, reorder-monsters                                  *)
(***************************************************************************)
NewMonsterData(monster) ==
    [id |-> monster.id,
     name |-> OrDefault(monster, "name", "", "Unnamed Monster"),
     type |-> OrDefault(monster, "type", "", "monster"),
     currentHp |-> OrDefault(monster, "currentHp", 0, 0),
     maxHp |-> OrDefault(monster, "maxHp", 0, 100),
     tempHp |-> OrDefault(monster, "tempHp", 0, 0),
     conditions |-> OrDefault(monster, "conditions", "", "[]"),
     isLocked |-> OrDefault(monster, "isLocked", FALSE, FALSE)]

\* if (!session.monsterOrder.includes(id)) session.monsterOrder.push(id)
PushAlways(order, id) == Append(order, id)
PushIfAbsent(order, id) == IF Includes(order, id) THEN order ELSE Append(order, id)

PieceInOneRow(pieceCount, m) ==
    [id |-> m.id, x |-> 50 + pieceCount * 50, y |-> 50,
     name |-> m.name, type |-> m.type, currentHp |-> m.currentHp, maxHp |-> m.maxHp]
DefaultPiece(pieceCount, m) ==
    [id |-> m.id,
     x |-> 50 + (pieceCount % 10) * 50,
     y |-> 50 + (pieceCount \div 10) * 50,
     name |-> m.name, type |-> m.type, currentHp |-> m.currentHp, maxHp |-> m.maxHp]

AddMonster(socket, sessionId, monster) ==
    LET S == getSession(sessionId)
        B == getBattlefieldSession(sessionId)
        session == S[sessionId]
        battlefield == B[sessionId]
        newMonsterData == NewMonsterData(monster)
        session2 == [monsters |-> Put(session.monsters, monster.id, newMonsterData),
                     monsterOrder |-> PushIfAbsent(session.monsterOrder, monster.id),
                     lastUpdated |-> now]
        battlefield2 ==
            IF ~Has(battlefield.pieces, monster.id)
            THEN [battlefield EXCEPT
                    !.pieces = Put(@, monster.id,
                                   DefaultPiece(Cardinality(DOMAIN battlefield.pieces), newMonsterData)),
                    !.lastUpdated = now]
            ELSE battlefield
    IN  /\ socket \in connected
        /\ sessions' = [S EXCEPT ![sessionId] = session2]
        /\ battlefieldSessions' = [B EXCEPT ![sessionId] = battlefield2]
        /\ emits' = << ToRoom(sessionId, "monster-updated", session2.monsters[monster.id]),
                       ToRoom(sessionId, "monsters-reordered", [order |-> session2.monsterOrder]),
                       ToRoom(sessionId, "battlefield-state-updated", [state |-> battlefield2]) >>
        /\ persists' = <<sessionId>>
        /\ last' = Msg("add-monster", socket, sessionId, monster)
        /\ insertionOrder' =
             [insertionOrder EXCEPT ![sessionId] =
                IF monster.id \in DOMAIN session.monsters THEN @ ELSE Append(@, monster.id)]
        /\ UNCHANGED <<diceSessions, backgroundChunks, timers, now, connected, rooms, rollLog, delivered>>
        /\ Persisting

UpdateHp(socket, sessionId, data) ==
    LET S == getSession(sessionId)
        session == S[sessionId]
        monsterId == data.monsterId
    IN  /\ socket \in connected
        /\ last' = Msg("update-hp", socket, sessionId, data)
        /\ IF monsterId \in DOMAIN session.monsters
           THEN LET m == session.monsters[monsterId]
                    m2 == [m EXCEPT !.currentHp = Get(data, "currentHp"),
                                    !.maxHp = Get(data, "maxHp"),
                                    !.tempHp = IF Defined(data, "tempHp") THEN Get(data, "tempHp") ELSE @]
                IN /\ sessions' = [S EXCEPT ![sessionId].monsters[monsterId] = m2,
                                            ![sessionId].lastUpdated = now]
                   /\ emits' = << ToRoom(sessionId, "monster-updated", m2) >>
                   /\ persists' = <<sessionId>>
                   /\ UNCHANGED inherited
           ELSE IF Has(session.monsters, monsterId)
           THEN \* session.monsters[monsterId] is Object.prototype: the fields are set on it;
                \* or a function, which keeps them to itself and carries nothing on the wire
                LET hp == Put(Put(inherited, "currentHp", Get(data, "currentHp")),
                              "maxHp", Get(data, "maxHp"))
                    proto == IF Defined(data, "tempHp") THEN Put(hp, "tempHp", Get(data, "tempHp"))
                             ELSE hp
                IN /\ inherited' = IF monsterId \in InheritedKeys THEN proto ELSE inherited
                   /\ sessions' = [S EXCEPT ![sessionId].lastUpdated = now]
                   /\ emits' = << ToRoom(sessionId, "monster-updated",
                                         IF monsterId \in InheritedKeys THEN proto ELSE <<>>) >>
                   /\ persists' = <<sessionId>>
           ELSE /\ sessions' = S
                /\ emits' = <<>>
                /\ persists' = <<>>
                /\ UNCHANGED inherited
        /\ UNCHANGED <<diceSessions, battlefieldSessions, backgroundChunks, timers, now,
                       connected, rooms, insertionOrder, rollLog, delivered>>
        /\ PersistingCalls

UpdateName(socket, sessionId, data) ==
    LET S == getSession(sessionId)
        session == S[sessionId]
        monsterId == data.monsterId
    IN  /\ socket \in connected
        /\ last' = Msg("update-name", socket, sessionId, data)
        /\ IF monsterId \in DOMAIN session.monsters
           THEN /\ sessions' = [S EXCEPT ![sessionId].monsters[monsterId].name = Get(data, "name"),
                                         ![sessionId].lastUpdated = now]
                /\ emits' = << ToRoom(sessionId, "monster-updated",
                                      sessions'[sessionId].monsters[monsterId]) >>
                /\ persists' = <<sessionId>>
                /\ UNCHANGED inherited
           ELSE IF Has(session.monsters, monsterId)
           THEN \* session.monsters[monsterId] is Object.prototype: the name is set on it;
                \* or a function, which keeps it to itself and carries nothing on the wire
                /\ inherited' = IF monsterId \in InheritedKeys
                                THEN Put(inherited, "name", Get(data, "name"))
                                ELSE inherited
                /\ sessions' = [S EXCEPT ![sessionId].lastUpdated = now]
                /\ emits' = << ToRoom(sessionId, "monster-updated",
                                      IF monsterId \in InheritedKeys THEN inherited' ELSE <<>>) >>
                /\ persists' = <<sessionId>>
           ELSE /\ sessions' = S
                /\ emits' = <<>>
                /\ persists' = <<>>
                /\ UNCHANGED inherited
        /\ UNCHANGED <<diceSessions, battlefieldSessions, backgroundChunks, timers, now,
                       connected, rooms, insertionOrder, rollLog, delivered>>
        /\ PersistingCalls

\* const index = order.indexOf(id); if (index > -1) order.splice(index, 1)
KeepInOrder(order, id) == order
RemoveFromOrder(order, id) ==
    LET index == IndexOf(order, id) IN IF index > 0 THEN Splice1(order, index) ELSE order

DeleteOneUnrecorded(st, id) ==
    [monsters |-> IF id \in DOMAIN st.monsters THEN Remove(st.monsters, id) ELSE st.monsters,
     deletedIds |-> st.deletedIds,
     pieces |-> IF id \in DOMAIN st.pieces THEN Remove(st.pieces, id) ELSE st.pieces,
     order |-> st.order,
     changed |-> st.changed \/ id \in DOMAIN st.monsters \/ id \in DOMAIN st.pieces]
\* the body of monsterIds.forEach, on st = [monsters, pieces, order, deletedIds, changed]
DeleteOne(st, id) ==
    [monsters |-> IF id \in DOMAIN st.monsters THEN Remove(st.monsters, id) ELSE st.monsters,
     deletedIds |-> IF Has(st.monsters, id) THEN Append(st.deletedIds, id) ELSE st.deletedIds,
     pieces |-> IF id \in DOMAIN st.pieces THEN Remove(st.pieces, id) ELSE st.pieces,
     order |-> RemoveFromOrder(st.order, id),
     changed |-> \/ st.changed
                 \/ Has(st.monsters, id)
                 \/ Has(st.pieces, id)
                 \/ IndexOf(st.order, id) > 0]

RECURSIVE DeleteLoop(_, _)
DeleteLoop(st, monsterIds) ==
    IF monsterIds = <<>> THEN st
    ELSE DeleteLoop(DeleteOne(st, Head(monsterIds)), Tail(monsterIds))

BatchDeleteMonsters(socket, sessionId, monsterIds) ==
    LET S == getSession(sessionId)
        B == getBattlefieldSession(sessionId)
        session == S[sessionId]
        battlefield == B[sessionId]
        r == DeleteLoop([monsters |-> session.monsters, pieces |-> battlefield.pieces,
                         order |-> session.monsterOrder, deletedIds |-> <<>>,
                         changed |-> FALSE], monsterIds)
        session2 == [monsters |-> r.monsters, monsterOrder |-> r.order, lastUpdated |-> now]
        battlefield2 == [battlefield EXCEPT !.pieces = r.pieces, !.lastUpdated = now]
        gone == {monsterIds[i] : i \in 1..Len(monsterIds)} \cap DOMAIN session.monsters
    IN  /\ socket \in connected
        /\ last' = Msg("batch-delete-monsters", socket, sessionId, monsterIds)
        /\ IF r.changed
           THEN /\ sessions' = [S EXCEPT ![sessionId] = session2]
                /\ battlefieldSessions' = [B EXCEPT ![sessionId] = battlefield2]
                /\ emits' = << ToRoom(sessionId, "monsters-deleted", [monsterIds |-> r.deletedIds]),
                               ToRoom(sessionId, "monsters-reordered", [order |-> r.order]),
                               ToRoom(sessionId, "battlefield-state-updated",
                                      [state |-> battlefield2]) >>
                /\ persists' = <<sessionId>>
           ELSE /\ sessions' = S
                /\ battlefieldSessions' = B
                /\ emits' = <<>>
                /\ persists' = <<>>
        /\ insertionOrder' =
             [insertionOrder EXCEPT ![sessionId] = SelectSeq(@, LAMBDA x : x \notin gone)]
        /\ UNCHANGED <<diceSessions, backgroundChunks, timers, now, connected, rooms, rollLog, delivered>>
        /\ Persisting

ReorderMonsters(socket, sessionId, order) ==
    LET S == getSession(sessionId)
    IN  /\ socket \in connected
        /\ last' = Msg("reorder-monsters", socket, sessionId, order)
        /\ sessions' = [S EXCEPT ![sessionId].monsterOrder = order,
                                 ![sessionId].lastUpdated = now]
        /\ emits' = << ToRoom(sessionId, "monsters-reordered", [order |-> order]) >>
        /\ persists' = <<sessionId>>
        /\ UNCHANGED <<diceSessions, battlefieldSessions, backgroundChunks, timers, now,
                       connected, rooms, insertionOrder, rollLog, delivered>>
        /\ Persisting

(***************************************************************************)
(* move-piece                                                              *)
(***************************************************************************)
PieceFromMonster(pieceId, x, y, monsterInfo) ==
    [id |-> pieceId, x |-> x, y |-> y,
     name |-> OrDefault(monsterInfo, "name", "", "Unknown Piece"),
     type |-> OrDefault(monsterInfo, "type", "", "monster"),
     currentHp |-> OrDefault(monsterInfo, "currentHp", 0, 0),
     maxHp |-> OrDefault(monsterInfo, "maxHp", 0, 0)]

\* the piece is unknown: the monster of that id anchors it, or the move is dropped
MoveCreatesAlways(S, sessionId, pieceId) == TRUE
MoveCreates(S, sessionId, pieceId) == pieceId \in DOMAIN S[sessionId].monsters

MovePiece(socket, sessionId, data) ==
    LET B == getBattlefieldSession(sessionId)
        battlefield == B[sessionId]
        pieceId == data.pieceId
    IN  /\ socket \in connected
        /\ last' = Msg("move-piece", socket, sessionId, data)
        /\ IF ~Has(battlefield.pieces, pieceId)
           THEN LET S == getSession(sessionId)
                    monsterInfo == IF pieceId \in DOMAIN S[sessionId].monsters
                                   THEN S[sessionId].monsters[pieceId]
                                   ELSE <<>>
                IN /\ sessions' = S
                   /\ IF MoveCreates(S, sessionId, pieceId)
                      THEN /\ battlefieldSessions' =
                                [B EXCEPT ![sessionId].pieces =
                                              Put(@, pieceId,
                                                  PieceFromMonster(pieceId, data.x, data.y, monsterInfo)),
                                          ![sessionId].lastUpdated = now]
                           /\ emits' = << ToRoom(sessionId, "battlefield-state-updated",
                                                 [state |-> battlefieldSessions'[sessionId]]) >>
                           /\ persists' = <<sessionId>>
                      ELSE /\ battlefieldSessions' = B
                           /\ emits' = <<>>
                           /\ persists' = <<>>
                   /\ UNCHANGED inherited
           ELSE /\ sessions' = sessions
                /\ IF pieceId \in DOMAIN battlefield.pieces
                   THEN /\ battlefieldSessions' =
                              [B EXCEPT ![sessionId].pieces[pieceId].x = data.x,
                                        ![sessionId].pieces[pieceId].y = data.y,
                                        ![sessionId].lastUpdated = now]
                        /\ UNCHANGED inherited
                   ELSE \* battlefield.pieces[pieceId] is Object.prototype, or a function:
                        \* the position is set on it
                        /\ battlefieldSessions' = [B EXCEPT ![sessionId].lastUpdated = now]
                        /\ inherited' = IF pieceId \in InheritedKeys
                                        THEN Put(Put(inherited, "x", data.x), "y", data.y)
                                        ELSE inherited
                /\ emits' = << ToOthers(socket, sessionId, "piece-moved",
                                        [pieceId |-> pieceId, x |-> data.x, y |-> data.y]) >>
                /\ persists' = <<sessionId>>
        /\ UNCHANGED <<diceSessions, backgroundChunks, timers, now, connected, rooms,
                       insertionOrder, rollLog, delivered>>
        /\ PersistingCalls

\* ---- inputs of the combat handlers ----
MonsterInputs ==
    {[id |-> "m1"], [id |-> "m1", name |-> "Orc", type |-> "npc", currentHp |-> 7, maxHp |-> 9],
     [id |-> "m2", name |-> "Orc", maxHp |-> 9]}
HpInputs ==
    {[monsterId |-> "m1", currentHp |-> 3, maxHp |-> 10],
     [monsterId |-> "m2", currentHp |-> 0, maxHp |-> 10, tempHp |-> 2],
     [monsterId |-> "zz", currentHp |-> 3, maxHp |-> 10]}
NameInputs == {[monsterId |-> m, name |-> "Zed"] : m \in {"m1", "zz"}}
DeleteInputs == {<<"m1">>, <<"m2", "m1">>, <<"m2", "m2">>, <<"zz">>}
OrderInputs == {<<"m2", "m1">>, <<"m1", "m1">>, <<"zz">>}
MoveInputs == {[pieceId |-> p, x |-> 120, y |-> 80] : p \in {"m1", "m2", "zz"}}
CombatSessionIds == {"s1"}
CombatSockets == {"a"}

\* the roster handlers, one session
CombatNext ==
    \E socket \in CombatSockets, sessionId \in CombatSessionIds :
        \/ JoinSession(socket, sessionId)
        \/ \E monster \in MonsterInputs : AddMonster(socket, sessionId, monster)
        \/ \E data \in HpInputs : UpdateHp(socket, sessionId, data)
        \/ \E data \in NameInputs : UpdateName(socket, sessionId, data)
        \/ \E ids \in DeleteInputs : BatchDeleteMonsters(socket, sessionId, ids)
        \/ \E order \in OrderInputs : ReorderMonsters(socket, sessionId, order)

SpecCombat == Init /\ [][CombatNext]_vars

\* pieces: created with their monster, deleted with it, moved
PieceNext ==
    \E socket \in Sockets, sessionId \in CombatSessionIds :
        \/ JoinSession(socket, sessionId)
        \/ \E monster \in MonsterInputs : AddMonster(socket, sessionId, monster)
        \/ \E ids \in DeleteInputs : BatchDeleteMonsters(socket, sessionId, ids)
        \/ \E data \in MoveInputs : MovePiece(socket, sessionId, data)

SpecPiece == Init /\ [][PieceNext]_vars

\* what a session holds, empty before its first use
MonstersOf(s) == IF s \in DOMAIN sessions THEN sessions[s].monsters ELSE <<>>
OrderOf(s) == IF s \in DOMAIN sessions THEN sessions[s].monsterOrder ELSE <<>>
PiecesOf(s) == IF s \in DOMAIN battlefieldSessions THEN battlefieldSessions[s].pieces ELSE <<>>

\* ---- a battlefield filled past its first row of ten pieces ----
MaxPieces == 11
PieceIds == <<"p01", "p02", "p03", "p04", "p05", "p06", "p07", "p08", "p09", "p10", "p11", "p12">>
\* the next monster added takes the first id that has no piece
FreeIds(sessionId) == {k \in 1..MaxPieces : PieceIds[k] \notin DOMAIN PiecesOf(sessionId)}
GridMonsters(sessionId) ==
    {[id |-> PieceIds[k], name |-> "Orc", type |-> "npc", currentHp |-> 7, maxHp |-> 9] :
        k \in {j \in FreeIds(sessionId) : \A i \in FreeIds(sessionId) : j <= i}}
    \cup {[id |-> "p01"]}
GridDeletes == {<<PieceIds[k]>> : k \in 1..3}
GridNext ==
    \E socket \in CombatSockets, sessionId \in CombatSessionIds :
        \/ \E monster \in GridMonsters(sessionId) : AddMonster(socket, sessionId, monster)
        \/ \E ids \in GridDeletes : BatchDeleteMonsters(socket, sessionId, ids)

SpecGrid == Init /\ [][GridNext]_vars

\* only add-monster and batch-delete-monsters, on every session
RosterNext ==
    \E socket \in CombatSockets, sessionId \in SessionIds :
        \/ \E monster \in MonsterInputs : AddMonster(socket, sessionId, monster)
        \/ \E ids \in DeleteInputs : BatchDeleteMonsters(socket, sessionId, ids)

SpecRoster == Init /\ [][RosterNext]_vars

(***************************************************************************)
(* Time: Date.now() advances between handlers                              *)
(***************************************************************************)
TimeoutMs == 60000
\* one step of the clock is as long as a transfer timeout
TickMs == TimeoutMs
Tick(limit) ==
    /\ now < limit
    /\ now' = now + TickMs
    /\ last' = Msg("tick", "", "", <<>>)
    /\ emits' = <<>>
    /\ persists' = <<>>
    /\ UNCHANGED <<sessions, diceSessions, battlefieldSessions, backgroundChunks, timers,
                   connected, rooms, insertionOrder, rollLog, delivered>>
    /\ Persisting

(***************************************************************************)
(* Dice: update-dice-state, roll-dice, reset-dice-request                  *)
(***************************************************************************)
UpdateDiceState(socket, sessionId, diceState) ==
    LET D == getDiceSession(sessionId)
    IN  /\ socket \in connected
        /\ last' = Msg("update-dice-state", socket, sessionId, diceState)
        /\ diceSessions' = [D EXCEPT ![sessionId].diceState = diceState,
                                     ![sessionId].lastUpdated = now]
        /\ emits' = << ToOthers(socket, sessionId, "dice-state-updated", diceState) >>
        /\ persists' = <<sessionId>>
        /\ UNCHANGED <<sessions, battlefieldSessions, backgroundChunks, timers, now,
                       connected, rooms, insertionOrder, rollLog, delivered>>
        /\ Persisting

\* diceType.match(/^d(4|6|8|10|12|20)$/) and parseInt(diceType.substring(1))
ValidDice == {"d4", "d6", "d8", "d10", "d12", "d20"}
Faces(diceType) ==
    CASE diceType = "d4" -> 4 [] diceType = "d6" -> 6 [] diceType = "d8" -> 8
      [] diceType = "d10" -> 10 [] diceType = "d12" -> 12 [] diceType = "d20" -> 20

\* Math.floor(Math.random() * faces) + 1
RandIntFromZero(faces) == 0..(faces - 1)
RandInt(faces) == 1..faces

\* the die types the loop rolls: quantity > 0 and a known die
RolledTypes(diceConfig) ==
    {diceType \in DOMAIN diceConfig.dice :
        diceConfig.dice[diceType] > 0 /\ diceType \in ValidDice}

\* advantage ? Math.max(roll1, roll2) : Math.min(roll1, roll2)
FinalRollFirst(diceConfig, roll1, roll2) == roll1
DisadvantageFirst(diceConfig, roll1, roll2) ==
    IF diceConfig.disadvantage THEN Min2(roll1, roll2) ELSE Max2(roll1, roll2)
FinalRoll(diceConfig, roll1, roll2) ==
    IF diceConfig.advantage THEN Max2(roll1, roll2) ELSE Min2(roll1, roll2)

\* one pass of the inner loop: draw is <<roll1, roll2>> or <<roll>>
RollOnce(acc, diceConfig, draw) ==
    IF diceConfig.advantage \/ diceConfig.disadvantage
    THEN LET finalRoll == FinalRoll(diceConfig, draw[1], draw[2])
         IN [acc EXCEPT !.rolls = Append(@, [roll1 |-> draw[1], roll2 |-> draw[2],
                                             finalRoll |-> finalRoll,
                                             isAdvantage |-> diceConfig.advantage,
                                             isDisadvantage |-> diceConfig.disadvantage]),
                        !.subtotal = @ + finalRoll]
    ELSE [acc EXCEPT !.rolls = Append(@, draw[1]), !.subtotal = @ + draw[1]]

RECURSIVE RollLoop(_, _, _)
RollLoop(acc, diceConfig, draws) ==
    IF draws = <<>> THEN acc
    ELSE RollLoop(RollOnce(acc, diceConfig, Head(draws)), diceConfig, Tail(draws))

\* the values Math.random() can give the rolls of one die type
DrawsOf(diceConfig, diceType) ==
    LET quantity == diceConfig.dice[diceType]
        faces == Faces(diceType)
    IN [1..quantity ->
          IF diceConfig.advantage \/ diceConfig.disadvantage
          THEN RandInt(faces) \X RandInt(faces)
          ELSE {<<r>> : r \in RandInt(faces)}]

RECURSIVE AllDraws(_, _)
AllDraws(diceConfig, types) ==
    IF types = {} THEN {<<>>}
    ELSE LET diceType == CHOOSE x \in types : TRUE
         IN {Put(rest, diceType, d) : d \in DrawsOf(diceConfig, diceType),
                                      rest \in AllDraws(diceConfig, types \ {diceType})}

RollResults(diceConfig, draws) ==
    [diceType \in RolledTypes(diceConfig) |->
        RollLoop([quantity |-> diceConfig.dice[diceType], rolls |-> <<>>, subtotal |-> 0],
                 diceConfig, draws[diceType])]

\* grandTotal += rollResults[diceType].subtotal, over the die types rolled
RECURSIVE GrandTotal(_, _)
GrandTotal(rollResults, types) ==
    IF types = {} THEN 0
    ELSE LET diceType == CHOOSE x \in types : TRUE
         IN rollResults[diceType].subtotal + GrandTotal(rollResults, types \ {diceType})

HistoryLimit == 50
OverCapacity(rollHistory) == Len(rollHistory) > HistoryLimit
NeverAtCapacity(rollHistory) == FALSE
AtCapacity(rollHistory) == Len(rollHistory) >= HistoryLimit
\* if (rollHistory.length >= 50) rollHistory.shift(); rollHistory.push(record)
PushRoll(rollHistory, record) ==
    Append(IF AtCapacity(rollHistory) THEN Tail(rollHistory) ELSE rollHistory, record)

RollDice(socket, sessionId, playerName, diceConfig) ==
    \E draws \in AllDraws(diceConfig, RolledTypes(diceConfig)) :
        LET rollResults == RollResults(diceConfig, draws)
            rollDataToSend == [playerName |-> playerName, rolls |-> rollResults,
                               grandTotal |-> GrandTotal(rollResults, DOMAIN rollResults),
                               timestamp |-> now]
            D == getDiceSession(sessionId)
        IN  /\ socket \in connected
            /\ last' = Msg("roll-dice", socket, sessionId,
                           [playerName |-> playerName, diceConfig |-> diceConfig])
            /\ diceSessions' = [D EXCEPT ![sessionId].rollHistory = PushRoll(@, rollDataToSend),
                                         ![sessionId].lastUpdated = now]
            /\ emits' = << ToRoom(sessionId, "dice-rolled", rollDataToSend) >>
            /\ persists' = <<sessionId>>
            /\ rollLog' = [rollLog EXCEPT ![sessionId] = Append(@, rollDataToSend)]
            /\ UNCHANGED <<sessions, battlefieldSessions, backgroundChunks, timers, now,
                           connected, rooms, insertionOrder, delivered>>
            /\ Persisting

\* a reset of the dice counts that leaves the history alone
ResetDiceStateOnly(socket, sessionId, playerName) ==
    LET D == getDiceSession(sessionId)
    IN  /\ socket \in connected
        /\ last' = Msg("reset-dice-request", socket, sessionId, [playerName |-> playerName])
        /\ diceSessions' = [D EXCEPT ![sessionId].diceState = ZeroDiceState,
                                     ![sessionId].lastUpdated = now]
        /\ emits' = << ToRoom(sessionId, "reset-dice", <<>>),
                       ToRoom(sessionId, "dice-state-updated", ZeroDiceState) >>
        /\ persists' = <<sessionId>>
        /\ rollLog' = [rollLog EXCEPT ![sessionId] = <<>>]
        /\ UNCHANGED <<sessions, battlefieldSessions, backgroundChunks, timers, now,
                       connected, rooms, insertionOrder, delivered>>
        /\ Persisting

ResetDiceRequest(socket, sessionId, playerName) ==
    LET D == getDiceSession(sessionId)
    IN  /\ socket \in connected
        /\ last' = Msg("reset-dice-request", socket, sessionId, [playerName |-> playerName])
        /\ diceSessions' = [D EXCEPT ![sessionId] =
                              [diceState |-> ZeroDiceState, rollHistory |-> <<>>,
                               lastUpdated |-> now]]
        /\ emits' = << ToRoom(sessionId, "reset-dice", <<>>),
                       ToRoom(sessionId, "dice-state-updated", ZeroDiceState) >>
        /\ persists' = <<sessionId>>
        /\ rollLog' = [rollLog EXCEPT ![sessionId] = <<>>]
        /\ UNCHANGED <<sessions, battlefieldSessions, backgroundChunks, timers, now,
                       connected, rooms, insertionOrder, delivered>>
        /\ Persisting

\* ---- inputs of the dice handlers ----
DiceConfig(dice, advantage, disadvantage) ==
    [dice |-> dice, advantage |-> advantage, disadvantage |-> disadvantage]
DiceInputs ==
    {DiceConfig([d20 |-> 1], FALSE, FALSE),
     DiceConfig([d6 |-> 1], TRUE, FALSE),
     DiceConfig([d4 |-> 1], FALSE, TRUE),
     DiceConfig([d4 |-> 1], TRUE, TRUE),
     DiceConfig([d4 |-> 2], FALSE, FALSE),
     DiceConfig([d4 |-> 1, d6 |-> 1, d20 |-> 0], FALSE, FALSE),
     DiceConfig([d5 |-> 1], TRUE, FALSE)}
DiceStateInputs == {DiceConfig([d4 |-> 0, d6 |-> 2, d8 |-> 0, d10 |-> 0, d12 |-> 0, d20 |-> 1],
                               TRUE, FALSE)}
DiceSessionIds == {"s1"}
DiceSockets == {"a"}
MaxDiceRolls == 1

\* rolls of every kind, a short history
DiceNext ==
    \E socket \in DiceSockets, sessionId \in DiceSessionIds :
        \/ JoinSession(socket, sessionId)
        \/ \E diceState \in DiceStateInputs : UpdateDiceState(socket, sessionId, diceState)
        \/ /\ Len(rollLog[sessionId]) < MaxDiceRolls
           /\ \E diceConfig \in DiceInputs : RollDice(socket, sessionId, "Ann", diceConfig)
        \/ ResetDiceRequest(socket, sessionId, "Ann")

SpecDice == Init /\ [][DiceNext]_vars

\* a long run of rolls that roll no die, told apart by their timestamps
HistoryInputs == {DiceConfig([d20 |-> 0], FALSE, FALSE)}
MaxHistoryRolls == 52
MaxHistoryTicks == 1

HistoryNext ==
    \/ Tick(MaxHistoryTicks * TickMs)
    \/ \E socket \in DiceSockets, sessionId \in DiceSessionIds :
        \/ JoinSession(socket, sessionId)
        \/ /\ Len(rollLog[sessionId]) < MaxHistoryRolls
           /\ \E diceConfig \in HistoryInputs : RollDice(socket, sessionId, "Ann", diceConfig)

SpecHistory == Init /\ [][HistoryNext]_vars

(***************************************************************************)
(* Battlefield settings: update-background, update-scale,                  *)
(* update-grid-visibility, update-piece-size.  Scales are in tenths.       *)
(***************************************************************************)
UpdateBackground(socket, sessionId, imageUrl) ==
    LET B == getBattlefieldSession(sessionId)
    IN  /\ socket \in connected
        /\ last' = Msg("update-background", socket, sessionId, [imageUrl |-> imageUrl])
        /\ battlefieldSessions' = [B EXCEPT ![sessionId].backgroundImage = imageUrl,
                                            ![sessionId].lastUpdated = now]
        /\ emits' = << ToOthers(socket, sessionId, "background-updated", [imageUrl |-> imageUrl]) >>
        /\ persists' = <<sessionId>>
        /\ UNCHANGED <<sessions, diceSessions, backgroundChunks, timers, now, connected, rooms,
                       insertionOrder, rollLog, delivered>>
        /\ Persisting

ScaleMin == 5
ScaleMax == 30
\* Math.max(0.5, Math.min(3.0, Number(scale)))
ScaleMinMaxSwapped(scale) == Min2(ScaleMin, Max2(ScaleMax, scale))
ValidatedScale(scale) == Max2(ScaleMin, Min2(ScaleMax, scale))

UpdateScale(socket, sessionId, scale) ==
    LET B == getBattlefieldSession(sessionId)
        validatedScale == ValidatedScale(scale)
    IN  /\ socket \in connected
        /\ last' = Msg("update-scale", socket, sessionId, [scale |-> scale])
        /\ battlefieldSessions' = [B EXCEPT ![sessionId].scale = validatedScale,
                                            ![sessionId].lastUpdated = now]
        /\ emits' = << ToOthers(socket, sessionId, "scale-updated", [scale |-> validatedScale]) >>
        /\ persists' = <<sessionId>>
        /\ UNCHANGED <<sessions, diceSessions, backgroundChunks, timers, now, connected, rooms,
                       insertionOrder, rollLog, delivered>>
        /\ Persisting

UpdateGridVisibility(socket, sessionId, isVisible) ==
    LET B == getBattlefieldSession(sessionId)
    IN  /\ socket \in connected
        /\ last' = Msg("update-grid-visibility", socket, sessionId, [isVisible |-> isVisible])
        /\ battlefieldSessions' = [B EXCEPT ![sessionId].isGridVisible = isVisible,
                                            ![sessionId].lastUpdated = now]
        /\ emits' = << ToOthers(socket, sessionId, "grid-visibility-updated",
                                [isVisible |-> isVisible]) >>
        /\ persists' = <<sessionId>>
        /\ UNCHANGED <<sessions, diceSessions, backgroundChunks, timers, now, connected, rooms,
                       insertionOrder, rollLog, delivered>>
        /\ Persisting

PieceSizeMin == 20
PieceSizeMax == 80
\* Math.max(20, Math.min(80, Number(size)))
ValidatedSize(size) == Max2(PieceSizeMin, Min2(PieceSizeMax, size))

UpdatePieceSize(socket, sessionId, size) ==
    LET B == getBattlefieldSession(sessionId)
        validatedSize == ValidatedSize(size)
    IN  /\ socket \in connected
        /\ last' = Msg("update-piece-size", socket, sessionId, [size |-> size])
        /\ battlefieldSessions' = [B EXCEPT ![sessionId].pieceSize = validatedSize,
                                            ![sessionId].lastUpdated = now]
        /\ emits' = << ToOthers(socket, sessionId, "piece-size-updated", [size |-> validatedSize]) >>
        /\ persists' = <<sessionId>>
        /\ UNCHANGED <<sessions, diceSessions, backgroundChunks, timers, now, connected, rooms,
                       insertionOrder, rollLog, delivered>>
        /\ Persisting

\* ---- inputs of the settings handlers: 0.1, 0.5, 1.7, 3.0, 5.0 ----
ScaleInputs == {1, 5, 17, 30, 50}
SizeInputs == {0, 20, 55, 80, 81}
ImageInputs == {<<"u">>, NoImage}

SettingsSessionIds == {"s1"}

SettingsNext ==
    \E socket \in Sockets, sessionId \in SettingsSessionIds :
        \/ JoinSession(socket, sessionId)
        \/ \E scale \in ScaleInputs : UpdateScale(socket, sessionId, scale)
        \/ \E size \in SizeInputs : UpdatePieceSize(socket, sessionId, size)
        \/ \E isVisible \in BOOLEAN : UpdateGridVisibility(socket, sessionId, isVisible)

SpecSettings == Init /\ [][SettingsNext]_vars

(***************************************************************************)
(* Chunked background transfer.  A string is a sequence of blocks; its     *)
(* length is the sum of its blocks' lengths, concatenation is \o.          *)
(***************************************************************************)
ChunkLimit == 600 * 1024
DoubleImageLimit == 2 * 10 * 1024 * 1024
ImageLimit == 10 * 1024 * 1024
MaxChunksAllowed == 100

BlockLen(b) == CASE b = "XL" -> ChunkLimit + 1
                 [] b = "L" -> ChunkLimit
                 [] OTHER -> 1
RECURSIVE StrLen(_)
StrLen(s) == IF s = <<>> THEN 0 ELSE BlockLen(Head(s)) + StrLen(Tail(s))

\* an array slot never assigned (and `undefined` where a slot is read out of range)
EmptySlot == <<>>
NewArray(totalChunks) == [i \in 0..(totalChunks - 1) |-> EmptySlot]
SlotAlwaysEmpty(chunks, chunkIndex) == EmptySlot
SlotAt(chunks, chunkIndex) ==
    IF chunkIndex \in DOMAIN chunks THEN chunks[chunkIndex] ELSE EmptySlot

\* transfer.chunks.join('')
RECURSIVE JoinFrom(_, _)
JoinFrom(chunks, i) ==
    IF i \notin DOMAIN chunks THEN <<>> ELSE chunks[i] \o JoinFrom(chunks, i + 1)
JoinChunks(chunks) == JoinFrom(chunks, 0)

\* setTimeout and clearTimeout: a bounded pool of handles
\* as many pending timers as image ids: one for each transfer, or one left behind by a restart
MaxTimers == Cardinality(ImageIds)
FreeHandles(tm) == (1..MaxTimers) \ DOMAIN tm
NewHandle(tm) == CHOOSE h \in FreeHandles(tm) : \A g \in FreeHandles(tm) : h <= g
TimeoutOf(imageId, sessionId) ==
    [imageId |-> imageId, sessionId |-> sessionId, due |-> now + TimeoutMs]
clearTimeout(tm, h) == IF h \in DOMAIN tm THEN Remove(tm, h) ELSE tm

TransferFailed(imageId, error) == [imageId |-> imageId, error |-> error]

\* an exception no handler catches ends the process: nothing is persisted, the connections
\* and everything held for them are gone, and the upserts on their way may yet reach the store
UncaughtException ==
    /\ proc' = [proc EXCEPT !.state = "exited", !.code = 1]
    /\ writes' = {[w EXCEPT !.by = "orphan"] : w \in writes}
    /\ snap' = [snap EXCEPT !.exit = Registries]
    /\ connected' = {}
    /\ rooms' = [c \in Sockets |-> {}]
    /\ backgroundChunks' = <<>>
    /\ timers' = <<>>
    /\ inherited' = <<>>
    /\ emits' = <<>>
    /\ UNCHANGED <<sessions, diceSessions, battlefieldSessions, now, insertionOrder, rollLog,
                   delivered, db, storeOn>>

\* new Array(totalChunks) throws a RangeError
InvalidArrayLength(totalChunks) == totalChunks < 0

TransferStart(socket, sessionId, imageId, totalChunks) ==
    /\ socket \in connected
    /\ proc.state \in {"running", "stopping"}
    /\ last' = Msg("background-transfer-start", socket, sessionId,
                   [imageId |-> imageId, totalChunks |-> totalChunks])
    /\ persists' = <<>>
    /\ IF totalChunks > MaxChunksAllowed
       THEN /\ emits' = << ToCaller(socket, "background-transfer-failed",
                                    TransferFailed(imageId, "Too many chunks")) >>
            /\ UNCHANGED <<backgroundChunks, timers, delivered>>
            /\ UNCHANGED <<sessions, diceSessions, battlefieldSessions, now, connected, rooms,
                           insertionOrder, rollLog>>
            /\ Persisting
       ELSE IF InvalidArrayLength(totalChunks)
       THEN UncaughtException
       ELSE /\ FreeHandles(timers) # {}
            /\ LET h == NewHandle(timers)
               IN /\ backgroundChunks' =
                        Put(backgroundChunks, imageId,
                            [sessionId |-> sessionId, chunks |-> NewArray(totalChunks),
                             receivedChunks |-> 0, totalChunks |-> totalChunks,
                             initiatorSocketId |-> socket, timer |-> h])
                  /\ timers' = Put(timers, h, TimeoutOf(imageId, sessionId))
            /\ delivered' = [delivered EXCEPT ![imageId] = {}]
            /\ emits' = <<>>
            /\ UNCHANGED <<sessions, diceSessions, battlefieldSessions, now, connected, rooms,
                           insertionOrder, rollLog>>
            /\ Persisting

\* the timer callback of a transfer: it looks the imageId up when it fires
TimerFires(h) ==
    /\ h \in DOMAIN timers
    /\ now >= timers[h].due
    /\ LET imageId == timers[h].imageId
           sessionId == timers[h].sessionId
       IN /\ last' = Msg("timeout", "", sessionId, [imageId |-> imageId, timer |-> h])
          /\ timers' = Remove(timers, h)
          /\ IF imageId \in DOMAIN backgroundChunks
             THEN /\ backgroundChunks' = Remove(backgroundChunks, imageId)
                  /\ emits' = << ToRoom(sessionId, "background-transfer-failed",
                                        TransferFailed(imageId, "Timeout")) >>
                  /\ delivered' = [delivered EXCEPT ![imageId] = {}]
             ELSE /\ UNCHANGED <<backgroundChunks, delivered>>
                  /\ emits' = <<>>
    /\ persists' = <<>>
    /\ UNCHANGED <<sessions, diceSessions, battlefieldSessions, now, connected, rooms,
                   insertionOrder, rollLog>>
    /\ Persisting

\* chunk.length > 600 * 1024
NoChunkLimit(chunk) == FALSE
ChunkTooLarge(chunk) == StrLen(chunk) > ChunkLimit

\* transfer.chunks[chunkIndex] = chunk
StoreAtFirstEmpty(chunks, chunkIndex, chunk) ==
    LET i == CHOOSE k \in DOMAIN chunks :
                 chunks[k] = EmptySlot /\ \A j \in DOMAIN chunks : chunks[j] = EmptySlot => k <= j
    IN [chunks EXCEPT ![i] = chunk]
StoreChunk(chunks, chunkIndex, chunk) == Put(chunks, chunkIndex, chunk)

\* chunkIndex >= 0 && chunkIndex < transfer.totalChunks
AnyIndex(transfer, chunkIndex) == TRUE
InRange(transfer, chunkIndex) == chunkIndex >= 0 /\ chunkIndex < transfer.totalChunks

\* if (transfer.receivedChunks === transfer.totalChunks)
LastFlagSet(transfer, isLastChunk) == isLastChunk = TRUE
AllReceived(transfer, isLastChunk) == transfer.receivedChunks = transfer.totalChunks

\* a failure that ends the transfer: clearTimeout, delete, notify the room
AbortTransfer(sessionId, imageId, transfer, error) ==
    /\ timers' = clearTimeout(timers, transfer.timer)
    /\ backgroundChunks' = Remove(backgroundChunks, imageId)
    /\ emits' = << ToRoom(sessionId, "background-transfer-failed", TransferFailed(imageId, error)) >>
    /\ persists' = <<>>
    /\ UNCHANGED battlefieldSessions

\* the check that follows an accepted or duplicate chunk; tm holds the timers so far
CompletionCheck(sessionId, imageId, transfer, tm, isLastChunk) ==
    IF AllReceived(transfer, isLastChunk)
    THEN LET fullImageUrl == JoinChunks(transfer.chunks)
             B == getBattlefieldSession(sessionId)
         IN /\ timers' = clearTimeout(tm, transfer.timer)
            /\ backgroundChunks' = Remove(backgroundChunks, imageId)
            /\ IF StrLen(fullImageUrl) > ImageLimit
               THEN /\ emits' = << ToRoom(sessionId, "background-transfer-failed",
                                          TransferFailed(imageId, "Image too large after reconstruction")) >>
                    /\ persists' = <<>>
                    /\ UNCHANGED battlefieldSessions
               ELSE /\ battlefieldSessions' = [B EXCEPT ![sessionId].backgroundImage = fullImageUrl,
                                                        ![sessionId].lastUpdated = now]
                    /\ emits' = << ToRoom(sessionId, "background-transfer-complete",
                                          [imageUrl |-> fullImageUrl]) >>
                    /\ persists' = <<sessionId>>
    ELSE /\ timers' = tm
         /\ backgroundChunks' = Put(backgroundChunks, imageId, transfer)
         /\ emits' = <<>>
         /\ persists' = <<>>
         /\ UNCHANGED battlefieldSessions

TransferChunk(socket, sessionId, data) ==
    LET imageId == data.imageId
        chunkIndex == data.chunkIndex
        chunk == data.chunk
    IN  /\ socket \in connected
        /\ last' = Msg("background-transfer-chunk", socket, sessionId, data)
        /\ IF \/ imageId \notin DOMAIN backgroundChunks
              \/ backgroundChunks[imageId].sessionId # sessionId
           THEN /\ emits' = <<>>
                /\ persists' = <<>>
                /\ UNCHANGED <<backgroundChunks, timers, battlefieldSessions>>
           ELSE LET transfer == backgroundChunks[imageId]
                IN IF ChunkTooLarge(chunk)
                   THEN AbortTransfer(sessionId, imageId, transfer, "Chunk too large")
                   ELSE IF /\ InRange(transfer, chunkIndex)
                           /\ SlotAt(transfer.chunks, chunkIndex) = EmptySlot
                   THEN LET tm1 == clearTimeout(timers, transfer.timer)
                            h == NewHandle(tm1)
                            transfer2 == [transfer EXCEPT
                                            !.chunks = StoreChunk(@, chunkIndex, chunk),
                                            !.receivedChunks = @ + 1,
                                            !.timer = h]
                        IN CompletionCheck(sessionId, imageId, transfer2,
                                           Put(tm1, h, TimeoutOf(imageId, sessionId)),
                                           data.isLastChunk)
                   ELSE IF SlotAt(transfer.chunks, chunkIndex) # EmptySlot
                   THEN CompletionCheck(sessionId, imageId, transfer, timers, data.isLastChunk)
                   ELSE AbortTransfer(sessionId, imageId, transfer, "Invalid chunk index")
        /\ delivered' =
             [i \in ImageIds |->
                IF i \notin DOMAIN backgroundChunks' THEN {}
                ELSE IF backgroundChunks'[i] = backgroundChunks[i] THEN delivered[i]
                ELSE delivered[i] \cup {<<chunkIndex, chunk>>}]
        /\ UNCHANGED <<sessions, diceSessions, now, connected, rooms, insertionOrder, rollLog>>
        /\ Persisting

\* transfer.initiatorSocketId === socket.id
OwnedByAnyone(socket) == DOMAIN backgroundChunks
OwnedBy(socket) ==
    {imageId \in DOMAIN backgroundChunks : backgroundChunks[imageId].initiatorSocketId = socket}

\* disconnect: the transfers this socket started are dropped
Disconnect(socket) ==
    LET owned == OwnedBy(socket)
    IN  /\ socket \in connected
        /\ last' = Msg("disconnect", socket, "", <<>>)
        /\ connected' = connected \ {socket}
        /\ rooms' = [rooms EXCEPT ![socket] = {}]
        /\ backgroundChunks' = [i \in DOMAIN backgroundChunks \ owned |-> backgroundChunks[i]]
        /\ timers' = [h \in DOMAIN timers \ {backgroundChunks[i].timer : i \in owned} |-> timers[h]]
        /\ emits' = <<>>
        /\ persists' = <<>>
        /\ delivered' = [i \in ImageIds |-> IF i \in owned THEN {} ELSE delivered[i]]
        /\ UNCHANGED <<sessions, diceSessions, battlefieldSessions, now, insertionOrder, rollLog>>
        /\ Persisting

\* ---- inputs of the transfer handlers ----
MaxChunks == 2
MaxTicks == 1
\* a transfer of one chunk, one of several, and one over the limit
TotalChunksInputs == {1, MaxChunks, MaxChunksAllowed + 1}
ChunkPayloads ==
    {[chunk |-> <<"a">>, isLastChunk |-> TRUE], [chunk |-> <<"b">>, isLastChunk |-> FALSE]}
OversizePayload == [chunk |-> <<"XL">>, isLastChunk |-> FALSE]
ChunkData(imageId, chunkIndex, p) ==
    [imageId |-> imageId, chunkIndex |-> chunkIndex, chunk |-> p.chunk, isLastChunk |-> p.isLastChunk]
TransferSockets == {"a"}
TransferSessionIds == {"s1"}
TransferImageIds == {"i1"}
\* the chunks of the session's transfers: every payload at every index, an oversize
\* chunk, an index below the range, and a chunk that names another session
ChunkInputs ==
    {[sessionId |-> s, data |-> ChunkData(i, k, p)] :
        s \in TransferSessionIds, i \in TransferImageIds, k \in 0..(MaxChunks - 1), p \in ChunkPayloads}
    \cup {[sessionId |-> s, data |-> ChunkData(i, k, OversizePayload)] :
            s \in TransferSessionIds, i \in TransferImageIds, k \in {-1, 0}}
    \cup {[sessionId |-> s, data |-> ChunkData(i, -1, [chunk |-> <<"b">>, isLastChunk |-> FALSE])] :
            s \in TransferSessionIds, i \in TransferImageIds}
    \cup {[sessionId |-> "s2", data |-> ChunkData(i, 0, [chunk |-> <<"b">>, isLastChunk |-> TRUE])] :
            i \in TransferImageIds}

\* one client's transfers, with time and timers
TransferNext ==
    \/ Tick(MaxTicks * TickMs)
    \/ \E h \in 1..MaxTimers : TimerFires(h)
    \/ \E socket \in TransferSockets :
        \/ \E sessionId \in TransferSessionIds :
            \/ JoinSession(socket, sessionId)
            \/ \E imageId \in TransferImageIds, totalChunks \in TotalChunksInputs :
                  TransferStart(socket, sessionId, imageId, totalChunks)
        \/ \E m \in ChunkInputs : TransferChunk(socket, m.sessionId, m.data)

SpecTransfer == Init /\ [][TransferNext]_vars

\* ---- one upload of full-size chunks sent in index order, with time and timers ----
\* the fewest chunks of 600 KiB that make more than 10 MiB
BigTotal == ((10 * 1024 * 1024) \div (600 * 1024)) + 1
FullChunk == [chunk |-> <<"L">>, isLastChunk |-> FALSE]
SmallChunk == [chunk |-> <<"a">>, isLastChunk |-> TRUE]
\* the sender's next chunk: a full one, or a small one in the last place
NextChunks(imageId) ==
    IF imageId \notin DOMAIN backgroundChunks THEN {}
    ELSE LET k == backgroundChunks[imageId].receivedChunks
         IN {ChunkData(imageId, k, FullChunk)}
            \cup (IF k = BigTotal - 1 THEN {ChunkData(imageId, k, SmallChunk)} ELSE {})
BigImageNext ==
    \/ Tick(MaxTicks * TickMs)
    \/ \E h \in 1..MaxTimers : TimerFires(h)
    \/ \E socket \in TransferSockets, sessionId \in TransferSessionIds :
        \/ JoinSession(socket, sessionId)
        \/ \E imageId \in TransferImageIds :
            \/ TransferStart(socket, sessionId, imageId, BigTotal)
            \/ \E data \in NextChunks(imageId) : TransferChunk(socket, sessionId, data)

SpecBigImage == Init /\ [][BigImageNext]_vars

\* ---- two clients, two sessions, two images: uploads, completion and disconnects ----
SharedSockets == {"a", "b"}
\* both clients join s1; a uploads i1 to either session, b uploads i2 to s1
SharedJoins == {[socket |-> c, sessionId |-> "s1"] : c \in SharedSockets}
SharedStarts ==
    {[socket |-> "a", sessionId |-> s, imageId |-> "i1"] : s \in SessionIds}
    \cup {[socket |-> "b", sessionId |-> "s1", imageId |-> "i2"]}
\* chunk k of an image carries the k-th letter; b also sends the last chunk of a's image
SharedChunk(imageId, k) ==
    ChunkData(imageId, k, [chunk |-> << <<"a", "b", "c">>[k + 1] >>, isLastChunk |-> FALSE])
SharedChunks ==
    {[socket |-> m.socket, sessionId |-> m.sessionId, data |-> SharedChunk(m.imageId, k)] :
        m \in SharedStarts, k \in 0..(MaxChunks - 1)}
    \cup {[socket |-> "b", sessionId |-> "s1", data |-> SharedChunk("i1", MaxChunks - 1)]}
SharedNext ==
    \/ \E socket \in SharedSockets : Disconnect(socket)
    \/ \E m \in SharedJoins : JoinSession(m.socket, m.sessionId)
    \/ \E m \in SharedStarts : TransferStart(m.socket, m.sessionId, m.imageId, MaxChunks)
    \/ \E m \in SharedChunks : TransferChunk(m.socket, m.sessionId, m.data)

SpecShared == Init /\ [][SharedNext]_vars

\* ---- one client moves its upload of i1 between two sessions, with time and timers ----
RestartStarts == {m \in SharedStarts : m.socket = "a"}
RestartChunks == {m \in SharedChunks : m.socket = "a"}
RestartNext ==
    \/ Tick(MaxTicks * TickMs)
    \/ \E h \in 1..MaxTimers : TimerFires(h)
    \/ \E m \in RestartStarts : TransferStart(m.socket, m.sessionId, m.imageId, MaxChunks)
    \/ \E m \in RestartChunks : TransferChunk(m.socket, m.sessionId, m.data)

SpecRestart == Init /\ [][RestartNext]_vars

(***************************************************************************)
(* The store answers the upserts; shutdown; loadDataOnStartup              *)
(***************************************************************************)
\* a store whose answer is told to every connection
StoreAnnounces ==
    /\ emits' = << ToEveryone("", "session-saved", <<>>) >>
    /\ persists' = <<>>
    /\ UNCHANGED <<sessions, diceSessions, battlefieldSessions, backgroundChunks, timers, now,
                   connected, rooms, insertionOrder, rollLog, delivered, snap, inherited, storeOn>>

StoreQuiet ==
    /\ emits' = <<>>
    /\ persists' = <<>>
    /\ UNCHANGED <<sessions, diceSessions, battlefieldSessions, backgroundChunks, timers, now,
                   connected, rooms, insertionOrder, rollLog, delivered, snap, inherited, storeOn>>

\* an upsert succeeds: the document is stored, and the call that awaited it goes on to its
\* next kind, read from the registries as they are now.  A call whose process has exited
\* goes no further.
WriteDone(w) ==
    /\ w \in writes
    /\ last' = Msg("write-done", "", w.sessionId, w)
    /\ db' = [db EXCEPT ![Kinds[w.stage]] = Put(@, w.sessionId, w.doc)]
    /\ writes' = (writes \ {w}) \cup
                    (IF w.by = "orphan" THEN {}
                     ELSE WriteFor(w.stage + 1, w.sessionId, w.by,
                                   sessions, diceSessions, battlefieldSessions))
    /\ UNCHANGED proc
    /\ StoreQuiet

\* catch (error) { console.error(...) }: nothing is rethrown, nothing is issued again
Rethrown(w) == FALSE
RetryAfterFailure(ws, w) == ws
AfterFailure(ws, w) == ws \ {w}

\* an upsert fails: the await throws into the catch of persistSessionData, which ends the call
WriteFails(w) ==
    /\ w \in writes
    /\ last' = Msg("write-failed", "", w.sessionId, w)
    /\ writes' = AfterFailure(writes, w)
    /\ proc' = IF w.by = "shutdown"
               THEN [proc EXCEPT !.lost = TRUE, !.failed = TRUE, !.rejected = @ \/ Rethrown(w)]
               ELSE [proc EXCEPT !.lost = TRUE]
    /\ UNCHANGED db
    /\ StoreQuiet

RECURSIVE SetToSeq(_)
SetToSeq(S) == IF S = {} THEN <<>>
               ELSE LET x == CHOOSE y \in S : TRUE IN <<x>> \o SetToSeq(S \ {x})

MaxRestarts == 1

\* SIGINT or SIGTERM: persistSessionData for every session id of the three registries
Shutdown ==
    LET allSessionIds == DOMAIN sessions \cup DOMAIN diceSessions \cup DOMAIN battlefieldSessions
    IN  /\ proc.state = "running"
        /\ proc.boots < MaxRestarts
        /\ last' = Msg("shutdown", "", "", <<>>)
        /\ persists' = SetToSeq(allSessionIds)
        /\ writes' = writes \cup UNION {persistSessionData(id, "shutdown", sessions, diceSessions,
                                                            battlefieldSessions) :
                                           id \in allSessionIds}
        /\ proc' = [proc EXCEPT !.state = "stopping"]
        /\ snap' = [signal |-> Registries, exit |-> <<>>, quiet |-> writes = {}]
        /\ emits' = <<>>
        /\ UNCHANGED <<sessions, diceSessions, battlefieldSessions, backgroundChunks, timers, now,
                       connected, rooms, insertionOrder, rollLog, delivered, db, inherited,
                       storeOn>>

\* await Promise.all(...) settles: process.exit(0), or process.exit(1) from the catch.
\* The upserts still on their way may yet reach the store.
Exit ==
    /\ proc.state = "stopping"
    /\ proc.rejected \/ \A w \in writes : w.by # "shutdown"
    /\ last' = Msg("exit", "", "", <<>>)
    /\ proc' = [proc EXCEPT !.state = "exited", !.code = IF proc.rejected THEN 1 ELSE 0]
    /\ writes' = {[w EXCEPT !.by = "orphan"] : w \in writes}
    /\ snap' = [snap EXCEPT !.exit = Registries]
    /\ connected' = {}
    /\ rooms' = [c \in Sockets |-> {}]
    /\ backgroundChunks' = <<>>
    /\ timers' = <<>>
    /\ inherited' = <<>>
    /\ emits' = <<>>
    /\ persists' = <<>>
    /\ UNCHANGED <<sessions, diceSessions, battlefieldSessions, now, insertionOrder, rollLog,
                   delivered, db, storeOn>>

\* pieces are an array in the document and an object keyed by piece.id in memory
RECURSIVE KeyById(_)
KeyById(array) ==
    IF array = <<>> THEN <<>>
    ELSE LET piece == Head(array)
         IN IF piece.id # "" THEN Put(KeyById(Tail(array)), piece.id, piece)
            ELSE KeyById(Tail(array))

HydrateSessions(docs) ==
    [id \in DOMAIN docs |->
        [monsters |-> docs[id].monsters, monsterOrder |-> docs[id].monsterOrder,
         lastUpdated |-> docs[id].lastUpdated]]
HydrateDiceSessions(docs) ==
    [id \in DOMAIN docs |->
        [diceState |-> docs[id].diceState, rollHistory |-> docs[id].rollHistory,
         lastUpdated |-> docs[id].lastUpdated]]
HydrateBattlefields(docs) ==
    [id \in DOMAIN docs |->
        [pieces |-> KeyById(docs[id].pieces),
         backgroundImage |-> docs[id].background.imageUrl,
         scale |-> docs[id].settings.scale,
         isGridVisible |-> docs[id].settings.gridVisible,
         pieceSize |-> docs[id].settings.pieceSize,
         lastUpdated |-> docs[id].lastUpdated]]

\* the next start of the server: loadDataOnStartup fills the registries from the store,
\* or leaves them empty when the load fails
Startup ==
    \E loaded \in BOOLEAN :
        /\ proc.state = "exited"
        /\ last' = Msg("startup", "", "", [loaded |-> loaded])
        /\ sessions' = IF loaded THEN HydrateSessions(db.combat) ELSE <<>>
        /\ diceSessions' = IF loaded THEN HydrateDiceSessions(db.dice) ELSE <<>>
        /\ battlefieldSessions' = IF loaded THEN HydrateBattlefields(db.battlefield) ELSE <<>>
        /\ proc' = [state |-> "running", code |-> -1, lost |-> FALSE, failed |-> FALSE,
                    rejected |-> FALSE, boots |-> proc.boots + 1]
        /\ connected' = Sockets
        /\ emits' = <<>>
        /\ persists' = <<>>
        /\ UNCHANGED <<backgroundChunks, timers, now, rooms, insertionOrder, rollLog, delivered,
                       db, writes, snap, inherited, storeOn>>

\* ---- inputs of the persistence specification ----
PersistMonsters == {[id |-> "m1"]}
PersistNames == {[monsterId |-> "m1", name |-> "Zed"]}
PersistSockets == {"a"}

PersistSessionIds == {"s1"}

\* mutations of a session until the server restarts, the store answering in any order
PersistNext ==
    \/ \E socket \in PersistSockets, sessionId \in PersistSessionIds :
          /\ proc.boots = 0
          /\ \/ JoinSession(socket, sessionId)
             \/ \E monster \in PersistMonsters : AddMonster(socket, sessionId, monster)
             \/ \E data \in PersistNames : UpdateName(socket, sessionId, data)
    \/ \E w \in writes : WriteDone(w)
    \/ \E w \in writes : WriteFails(w)
    \/ Shutdown
    \/ Exit
    \/ Startup

SpecPersist == InitStore /\ [][PersistNext]_vars

(***************************************************************************)
(* Full system                                                             *)
(***************************************************************************)
Next ==
    \/ CombatNext
    \/ PieceNext
    \/ RosterNext
    \/ DiceNext
    \/ HistoryNext
    \/ SettingsNext
    \/ TransferNext
    \/ \E socket \in Sockets, sessionId \in SessionIds, imageUrl \in ImageInputs :
          UpdateBackground(socket, sessionId, imageUrl)
    \/ \E socket \in Sockets : Disconnect(socket)
    \/ PersistNext

Spec == InitStore /\ [][Next]_vars

(***************************************************************************)
(* Properties                                                              *)
(***************************************************************************)
NoDuplicates(seq) == \A i, j \in 1..Len(seq) : seq[i] = seq[j] => i = j
Range(seq) == {seq[i] : i \in 1..Len(seq)}
GoodOrder(order, monsters) == Range(order) \subseteq DOMAIN monsters /\ NoDuplicates(order)
OrderWellFormed == \A s \in SessionIds : GoodOrder(OrderOf(s), MonstersOf(s))

\* C1 as stated: in every reachable state, whatever roster messages came (reorder-monsters
\* included), every id in monsterOrder is a key of monsters and occurs at most once.
C1_OrderAlwaysWellFormed == OrderWellFormed

\* C1, amended: monsterOrder starts well formed, and every add-monster, update-hp, update-name
\* and batch-delete-monsters message, and every reorder-monsters message whose order is a
\* duplicate-free list of existing monster ids, keeps it so: every id in monsterOrder is a
\* key of monsters and occurs at most once.
C1_OrderKeptWellFormed ==
    /\ OrderWellFormed
    /\ [][(/\ OrderWellFormed
           /\ last'.type = "reorder-monsters"
                => GoodOrder(last'.arg, MonstersOf(last'.sessionId)))
          => OrderWellFormed']_vars

C1_Witness ==
    /\ last.type = "batch-delete-monsters"
    /\ persists # <<>>
    /\ OrderOf(last.sessionId) = <<"m2">>
    /\ DOMAIN MonstersOf(last.sessionId) = {"m2"}

\* C2: after add-monster and batch-delete-monsters messages only, monsterOrder holds exactly
\* the ids of the monsters that exist, each once, in the order of the insertions that
\* created them.
C2_OrderIsSurvivorsInInsertionOrder ==
    \A s \in SessionIds :
        /\ Range(OrderOf(s)) = DOMAIN MonstersOf(s)
        /\ NoDuplicates(OrderOf(s))
        /\ OrderOf(s) = insertionOrder[s]

C2_Witness ==
    /\ last.type = "batch-delete-monsters"
    /\ last.arg = <<"m1">>
    /\ persists # <<>>
    /\ OrderOf(last.sessionId) = <<"m2">>

HistoryOf(s) == IF s \in DOMAIN diceSessions THEN diceSessions[s].rollHistory ELSE <<>>

\* C3: with no reset in between, after n rolls rollHistory is the last min(n, 50) roll
\* records in the order they were rolled, so it never holds more than 50 and a roll beyond
\* capacity evicts exactly the oldest record.
C3_HistoryIsLastFifty ==
    \A s \in SessionIds :
        LET n == Len(rollLog[s])
            k == IF n < 50 THEN n ELSE 50
        IN /\ Len(HistoryOf(s)) = k
           /\ \A i \in 1..k : HistoryOf(s)[i] = rollLog[s][n - k + i]

C3_Witness ==
    /\ last.type = "roll-dice"
    /\ Len(rollLog[last.sessionId]) = 52
    /\ Len(HistoryOf(last.sessionId)) = 50
    /\ HistoryOf(last.sessionId)[1].timestamp < HistoryOf(last.sessionId)[50].timestamp

\* the record the latest roll-dice appended
LastRoll == HistoryOf(last.sessionId)[Len(HistoryOf(last.sessionId))]
Flagged(diceConfig) == diceConfig.advantage \/ diceConfig.disadvantage
Sides == [d4 |-> 4, d6 |-> 6, d8 |-> 8, d10 |-> 10, d12 |-> 12, d20 |-> 20]
FinalOf(diceConfig, entry) == IF Flagged(diceConfig) THEN entry.finalRoll ELSE entry
RECURSIVE SumOfFinals(_, _, _)
SumOfFinals(diceConfig, rolls, i) ==
    IF i = 0 THEN 0 ELSE SumOfFinals(diceConfig, rolls, i - 1) + FinalOf(diceConfig, rolls[i])
SubtotalOf(record, diceType) ==
    IF diceType \in DOMAIN record.rolls THEN record.rolls[diceType].subtotal ELSE 0

\* C4: in the record of every roll-dice, each final value of a die dN is in 1..N, each die
\* type's subtotal is the sum of its final values and grandTotal is the sum of the
\* subtotals; with {d20: 1} and no advantage or disadvantage grandTotal is the one recorded
\* roll, in 1..20.
C4_RollTotals ==
    last.type = "roll-dice" =>
        LET diceConfig == last.arg.diceConfig
            rolls == LastRoll.rolls
        IN /\ DOMAIN rolls \subseteq DOMAIN Sides
           /\ \A diceType \in DOMAIN rolls :
                /\ \A i \in 1..Len(rolls[diceType].rolls) :
                      FinalOf(diceConfig, rolls[diceType].rolls[i]) \in 1..Sides[diceType]
                /\ rolls[diceType].subtotal =
                      SumOfFinals(diceConfig, rolls[diceType].rolls, Len(rolls[diceType].rolls))
           /\ LastRoll.grandTotal =
                SubtotalOf(LastRoll, "d4") + SubtotalOf(LastRoll, "d6") + SubtotalOf(LastRoll, "d8")
                + SubtotalOf(LastRoll, "d10") + SubtotalOf(LastRoll, "d12") + SubtotalOf(LastRoll, "d20")
           /\ (diceConfig.dice = [d20 |-> 1] /\ ~Flagged(diceConfig))
                => /\ DOMAIN rolls = {"d20"}
                   /\ rolls["d20"].rolls = <<LastRoll.grandTotal>>
                   /\ LastRoll.grandTotal \in 1..20

C4_Witness ==
    /\ last.type = "roll-dice"
    /\ last.arg.diceConfig.dice = [d20 |-> 1]
    /\ ~Flagged(last.arg.diceConfig)
    /\ LastRoll.rolls["d20"].rolls = <<20>>
    /\ LastRoll.grandTotal = 20

\* C5: with advantage and not disadvantage every roll's finalRoll is the larger of roll1 and
\* roll2, with disadvantage and not advantage the smaller; roll1 and roll2 are in 1..faces
\* and are kept in the record next to finalRoll.
C5_AdvantageTakesMax ==
    (last.type = "roll-dice" /\ last.arg.diceConfig.advantage # last.arg.diceConfig.disadvantage) =>
        \A diceType \in DOMAIN LastRoll.rolls :
            \A i \in 1..Len(LastRoll.rolls[diceType].rolls) :
                LET entry == LastRoll.rolls[diceType].rolls[i]
                IN /\ {"roll1", "roll2", "finalRoll"} \subseteq DOMAIN entry
                   /\ entry.roll1 \in 1..Sides[diceType]
                   /\ entry.roll2 \in 1..Sides[diceType]
                   /\ entry.finalRoll \in {entry.roll1, entry.roll2}
                   /\ IF last.arg.diceConfig.advantage
                      THEN entry.finalRoll >= entry.roll1 /\ entry.finalRoll >= entry.roll2
                      ELSE entry.finalRoll <= entry.roll1 /\ entry.finalRoll <= entry.roll2

C5_Witness ==
    /\ last.type = "roll-dice"
    /\ last.arg.diceConfig.advantage /\ ~last.arg.diceConfig.disadvantage
    /\ "d6" \in DOMAIN LastRoll.rolls
    /\ LastRoll.rolls["d6"].rolls[1].roll1 = 2
    /\ LastRoll.rolls["d6"].rolls[1].roll2 = 5
    /\ LastRoll.rolls["d6"].rolls[1].finalRoll = 5

ImageOf(s) ==
    IF s \in DOMAIN battlefieldSessions THEN battlefieldSessions[s].backgroundImage ELSE NoImage
IsChunkStep(m) == m.type = "background-transfer-chunk"
\* the chunk message m is for a transfer in progress of the session it names
ForTransfer(m) ==
    /\ m.arg.imageId \in DOMAIN backgroundChunks
    /\ backgroundChunks[m.arg.imageId].sessionId = m.sessionId
Indexes(pairs) == {q[1] : q \in pairs}
\* the chunks of pairs <<index, chunk>>, concatenated by index 0..n-1
RECURSIVE ByIndex(_, _)
ByIndex(pairs, n) ==
    IF n = 0 THEN <<>>
    ELSE ByIndex(pairs, n - 1) \o (CHOOSE q \in pairs : q[1] = n - 1)[2]
Emitted(es, name) == \E k \in 1..Len(es) : es[k].name = name

\* C7: when the chunk arrives that makes every index 0..n-1 of a transfer delivered once
\* (no chunk over 600 KiB, the whole at most 10 MiB), the transfer completes and the stored
\* backgroundImage is the chunks' concatenation by index, whatever the arrival order.
C7_ReassembledByIndex ==
    [][LET m == last'
           img == m.arg.imageId
           n == backgroundChunks[img].totalChunks
           all == delivered[img] \cup {<<m.arg.chunkIndex, m.arg.chunk>>}
       IN (/\ IsChunkStep(m)
           /\ ForTransfer(m)
           /\ StrLen(m.arg.chunk) <= 600 * 1024
           /\ m.arg.chunkIndex \notin Indexes(delivered[img])
           /\ Indexes(all) = 0..(n - 1)
           /\ StrLen(ByIndex(all, n)) <= 10 * 1024 * 1024)
          => /\ img \notin DOMAIN backgroundChunks'
             /\ battlefieldSessions'[m.sessionId].backgroundImage = ByIndex(all, n)
             /\ Len(emits') = 1
             /\ emits'[1].name = "background-transfer-complete"
             /\ emits'[1].data.imageUrl = ByIndex(all, n)]_vars

\* chunk 1 arrived before chunk 0, and the image is chunk 0 followed by chunk 1
C7_Witness ==
    /\ IsChunkStep(last)
    /\ last.arg.chunkIndex = 0
    /\ Emitted(emits, "background-transfer-complete")
    /\ ImageOf(last.sessionId) = <<"a", "b">>

\* C8: a transfer completes exactly at the accepted chunk that makes receivedChunks equal
\* totalChunks, whatever the isLastChunk flags say.
C8_CompletesOnCountOnly ==
    [][LET m == last'
       IN Emitted(emits', "background-transfer-complete")
          <=> /\ IsChunkStep(m)
              /\ ForTransfer(m)
              /\ StrLen(m.arg.chunk) <= 600 * 1024
              /\ m.arg.chunkIndex \in 0..(backgroundChunks[m.arg.imageId].totalChunks - 1)
              /\ backgroundChunks[m.arg.imageId].chunks[m.arg.chunkIndex] = EmptySlot
              /\ backgroundChunks[m.arg.imageId].receivedChunks + 1
                    = backgroundChunks[m.arg.imageId].totalChunks
              /\ StrLen(JoinChunks(backgroundChunks[m.arg.imageId].chunks)) + StrLen(m.arg.chunk)
                    <= 10 * 1024 * 1024]_vars

C8_Witness ==
    /\ IsChunkStep(last)
    /\ last.arg.isLastChunk = FALSE
    /\ Emitted(emits, "background-transfer-complete")
    /\ Len(ImageOf(last.sessionId)) = 2

FailedFor(es, imageId) ==
    \E k \in 1..Len(es) : es[k].name = "background-transfer-failed" /\ es[k].data.imageId = imageId

\* C9: a chunk over 600 KiB for a transfer in progress, at whatever index, removes the
\* transfer and cancels its timeout, emits exactly one background-transfer-failed to the
\* room and leaves every backgroundImage as it was; while the imageId stays unregistered no
\* timer and no chunk emits a failure for it again.
C9_OversizeChunkAborts ==
    [][LET m == last'
       IN /\ (/\ IsChunkStep(m)
              /\ ForTransfer(m)
              /\ StrLen(m.arg.chunk) > 600 * 1024)
             => /\ m.arg.imageId \notin DOMAIN backgroundChunks'
                /\ backgroundChunks[m.arg.imageId].timer \notin DOMAIN timers'
                /\ Len(emits') = 1
                /\ emits'[1].name = "background-transfer-failed"
                /\ emits'[1].mode = "room"
                /\ emits'[1].room = m.sessionId
                /\ emits'[1].data.imageId = m.arg.imageId
                /\ battlefieldSessions' = battlefieldSessions
          /\ \A i \in ImageIds :
                (i \notin DOMAIN backgroundChunks /\ m.type # "background-transfer-start")
                => ~FailedFor(emits', i)]_vars

\* the oversize chunk came with an index out of range, and the transfer it ended had
\* replaced an earlier one whose timer is still pending
C9_Witness ==
    /\ IsChunkStep(last)
    /\ StrLen(last.arg.chunk) > 600 * 1024
    /\ last.arg.chunkIndex = -1
    /\ Len(emits) = 1
    /\ emits[1].data.error = "Chunk too large"
    /\ FailedFor(emits, last.arg.imageId)
    /\ last.arg.imageId \notin DOMAIN backgroundChunks
    /\ timers # <<>>

Clamp(x, lo, hi) == IF x < lo THEN lo ELSE IF x > hi THEN hi ELSE x
ScaleOf(s) == battlefieldSessions[s].scale
PieceSizeOf(s) == battlefieldSessions[s].pieceSize

\* C10: update-scale stores its input clamped to [0.5, 3.0] and update-piece-size its input
\* clamped to [20, 80]; the value each sends to the other connections is the value stored;
\* no other message changes the stored scale or pieceSize.
C10_SettingsClamped ==
    [][LET m == last'
           s == m.sessionId
       IN /\ m.type = "update-scale"
             => /\ battlefieldSessions'[s].scale = Clamp(m.arg.scale, 5, 30)
                /\ Len(emits') = 1
                /\ emits'[1].name = "scale-updated"
                /\ emits'[1].mode = "others"
                /\ emits'[1].to = Members(s) \ {m.socket}
                /\ emits'[1].data.scale = battlefieldSessions'[s].scale
          /\ m.type = "update-piece-size"
             => /\ battlefieldSessions'[s].pieceSize = Clamp(m.arg.size, 20, 80)
                /\ Len(emits') = 1
                /\ emits'[1].name = "piece-size-updated"
                /\ emits'[1].mode = "others"
                /\ emits'[1].to = Members(s) \ {m.socket}
                /\ emits'[1].data.size = battlefieldSessions'[s].pieceSize
          /\ \A x \in DOMAIN battlefieldSessions :
                /\ (m.type # "update-scale" \/ s # x) => ScaleOf(x)' = ScaleOf(x)
                /\ (m.type # "update-piece-size" \/ s # x) => PieceSizeOf(x)' = PieceSizeOf(x)]_vars

\* 5.0 was sent and 3.0 is stored and was sent on to the other connection
C10_Witness ==
    /\ last.type = "update-scale"
    /\ last.arg.scale = 50
    /\ ScaleOf(last.sessionId) = 30
    /\ emits[1].to # {}
    /\ emits[1].data.scale = 30

IsJoin(m) == m.type = "join-session"
ToCallerOnly(es, socket) ==
    \A k \in 1..Len(es) : es[k].mode = "caller" /\ es[k].to = {socket}
JoinEvents == <<"session-updated", "dice-state-updated", "roll-history-sync",
                "battlefield-state-updated">>

\* C11: a join-session for a session id that none of the three registries holds creates the
\* three entries with their defaults and sends session-updated, dice-state-updated,
\* roll-history-sync and battlefield-state-updated with those defaults to the caller only.
C11_FreshJoinDefaults ==
    [][LET m == last'
           s == m.sessionId
       IN (/\ IsJoin(m)
           /\ s \notin DOMAIN sessions
           /\ s \notin DOMAIN diceSessions
           /\ s \notin DOMAIN battlefieldSessions)
          => /\ sessions'[s].monsters = <<>>
             /\ sessions'[s].monsterOrder = <<>>
             /\ diceSessions'[s].diceState =
                   [dice |-> [d4 |-> 0, d6 |-> 0, d8 |-> 0, d10 |-> 0, d12 |-> 0, d20 |-> 0],
                    advantage |-> FALSE, disadvantage |-> FALSE]
             /\ diceSessions'[s].rollHistory = <<>>
             /\ battlefieldSessions'[s].pieces = <<>>
             /\ battlefieldSessions'[s].backgroundImage = <<"null">>
             /\ battlefieldSessions'[s].scale = 10
             /\ battlefieldSessions'[s].isGridVisible = TRUE
             /\ battlefieldSessions'[s].pieceSize = 40
             /\ [k \in 1..Len(emits') |-> emits'[k].name] = JoinEvents
             /\ ToCallerOnly(emits', m.socket)
             /\ emits'[1].data = sessions'[s]
             /\ emits'[2].data = diceSessions'[s].diceState
             /\ emits'[3].data = diceSessions'[s].rollHistory
             /\ emits'[4].data = [state |-> battlefieldSessions'[s]]
             /\ s \in rooms'[m.socket]]_vars

\* the first message of the server's life was a join, and the caller got the defaults
C11_Witness ==
    /\ IsJoin(last)
    /\ proc.boots = 0
    /\ db = [combat |-> <<>>, dice |-> <<>>, battlefield |-> <<>>]
    /\ writes = {}
    /\ Len(emits) = 4
    /\ emits[1].data.monsters = <<>>
    /\ emits[4].data.state.pieces = <<>>
    /\ emits[4].data.state.isGridVisible

\* C12: the four snapshots of a join-session are the session's registry entries as they were
\* when the join arrived, whatever the store holds and whatever became of the writes.
C12_JoinSendsRegistryState ==
    [][LET m == last'
           s == m.sessionId
       IN IsJoin(m)
          => /\ [k \in 1..Len(emits') |-> emits'[k].name] = JoinEvents
             /\ ToCallerOnly(emits', m.socket)
             /\ s \in DOMAIN sessions => emits'[1].data = sessions[s]
             /\ s \in DOMAIN diceSessions
                  => /\ emits'[2].data = diceSessions[s].diceState
                     /\ emits'[3].data = diceSessions[s].rollHistory
             /\ s \in DOMAIN battlefieldSessions
                  => emits'[4].data = [state |-> battlefieldSessions[s]]
             /\ \A x \in DOMAIN sessions : sessions'[x] = sessions[x]
             /\ \A x \in DOMAIN diceSessions : diceSessions'[x] = diceSessions[x]
             /\ \A x \in DOMAIN battlefieldSessions :
                   battlefieldSessions'[x] = battlefieldSessions[x]]_vars

\* the join shows the renamed monster although its write failed and the store holds nothing
C12_Witness ==
    /\ IsJoin(last)
    /\ proc.boots = 0
    /\ "m1" \in DOMAIN emits[1].data.monsters
    /\ emits[1].data.monsters["m1"].name = "Zed"
    /\ "m1" \in DOMAIN emits[4].data.state.pieces
    /\ db.combat = <<>>
    /\ writes = {}

HandlerTypes == {"add-monster", "update-hp", "update-name", "batch-delete-monsters",
                 "reorder-monsters", "update-dice-state", "roll-dice", "reset-dice-request",
                 "move-piece", "update-background", "background-transfer-chunk",
                 "update-scale", "update-grid-visibility", "update-piece-size"}
\* the step changed an entry of a registry, beyond creating the session's entries
Mutated(s) ==
    \/ sessions' \notin {sessions, getSession(s)}
    \/ diceSessions' \notin {diceSessions, getDiceSession(s)}
    \/ battlefieldSessions' \notin {battlefieldSessions, getBattlefieldSession(s)}

\* C13: a failing upsert changes no registry and no stored document, emits nothing and is
\* not issued again: the failed call just ends.  A handler that mutates a registry issues
\* exactly one persistSessionData call, for its session, and no handler issues more.
C13_FailedWriteIsSwallowed ==
    [][LET m == last'
       IN /\ m.type = "write-failed"
             => /\ Registries' = Registries
                /\ db' = db
                /\ emits' = <<>>
                /\ persists' = <<>>
                /\ writes' = writes \ {m.arg}
          /\ m.type \in HandlerTypes
             => /\ Len(persists') <= 1
                /\ Mutated(m.sessionId) => persists' = <<m.sessionId>>]_vars

\* the write of an add-monster failed: the monster is in memory, nothing is stored or pending
C13_Witness ==
    /\ last.type = "write-failed"
    /\ last.arg.by = "handler"
    /\ proc.boots = 0
    /\ proc.state = "running"
    /\ "m1" \in DOMAIN sessions[last.sessionId].monsters
    /\ db.combat = <<>>
    /\ writes = {}

\* C14: when an upsert of a handler's persistSessionData call fails, the upsert of the next
\* kind the session has is still attempted.
C14_KindsPersistedIndependently ==
    [][LET m == last'
       IN (m.type = "write-failed" /\ m.arg.by = "handler")
          => WriteFor(m.arg.stage + 1, m.sessionId, "handler",
                      sessions, diceSessions, battlefieldSessions) \subseteq writes']_vars

SameDoc(d, e) == [d EXCEPT !.lastUpdated = 0] = [e EXCEPT !.lastUpdated = 0]
\* every stored document is what an upsert of the registries as they are would store
DurableIsCurrent ==
    \A j \in 1..3 : \A s \in DOMAIN db[Kinds[j]] :
        /\ s \in DOMAIN Registry(Kinds[j], sessions, diceSessions, battlefieldSessions)
        /\ SameDoc(db[Kinds[j]][s],
                   UpdateOf(Kinds[j], s, sessions, diceSessions, battlefieldSessions))

\* C15: once every upsert issued has succeeded and none is pending, each stored document
\* equals the session's state in memory, in whatever order the store served the upserts.
C15_DurableConverges ==
    (proc.boots = 0 /\ proc.state = "running" /\ ~proc.lost /\ writes = {}) => DurableIsCurrent

\* C16: the process exits with status 0 only when every write of the shutdown succeeded,
\* and with a non-zero status when one of them failed.
C16_ExitCodeTellsFailure ==
    proc.state = "exited" => (proc.code = 0 <=> ~proc.failed)

\* the entry of x, or the entry its first use would create
EntryOr(f, x, new) == IF x \in DOMAIN f THEN f[x] ELSE new
\* registry f gives every session the state registry g gives it, timestamps aside
SameButTime(f, g, new) ==
    \A x \in DOMAIN f \cup DOMAIN g :
        [EntryOr(f, x, new) EXCEPT !.lastUpdated = 0] = [EntryOr(g, x, new) EXCEPT !.lastUpdated = 0]
SameRegistries(R, Q) ==
    /\ SameButTime(R.sessions, Q.sessions, NewSession)
    /\ SameButTime(R.diceSessions, Q.diceSessions, NewDiceSession)
    /\ SameButTime(R.battlefieldSessions, Q.battlefieldSessions, NewBattlefield)
ShutdownCoversAll ==
    LET m == last'
        ids == DOMAIN sessions \cup DOMAIN diceSessions \cup DOMAIN battlefieldSessions
    IN m.type = "shutdown"
       => /\ {persists'[k] : k \in 1..Len(persists')} = ids
          /\ Len(persists') = Cardinality(ids)
          /\ \A s \in ids : \E w \in writes' : w.sessionId = s /\ w.by = "shutdown"

\* C17 as stated: shutdown calls persistSessionData for every session id of the three
\* registries, and when all its writes succeeded the registries loaded at the next startup
\* equal, timestamps aside, the registries the process exited with.
C17_ShutdownRoundTrip ==
    [][/\ ShutdownCoversAll
       /\ (last'.type = "startup" /\ last'.arg.loaded /\ proc.code = 0 /\ ~proc.failed)
          => SameRegistries(Registries', snap.exit)]_vars

\* A quiet shutdown does round-trip: with no upsert pending when the signal came and no
\* handler run between the signal and the exit, the registries loaded equal those exited with.
QuietShutdownRoundTrip ==
    [][(last'.type = "startup" /\ last'.arg.loaded /\ proc.code = 0 /\ ~proc.failed
              /\ snap.quiet)
          => SameRegistries(Registries', snap.exit)]_vars

(***************************************************************************)
(* Transfers: timeouts, disconnects, completion                            *)
(***************************************************************************)
TimeoutEvent(sessionId, imageId) ==
    ToRoom(sessionId, "background-transfer-failed", TransferFailed(imageId, "Timeout"))
\* the transfer has accepted no chunk for 60 seconds since its start or its last accepted chunk
Idle(transfer) == now >= timers[transfer.timer].due
\* the step started transfer i or accepted one of its chunks
Touched(i) ==
    /\ i \in DOMAIN backgroundChunks'
    /\ \/ /\ last'.type = "background-transfer-start"
          /\ last'.arg.imageId = i
          /\ last'.arg.totalChunks <= MaxChunksAllowed
       \/ /\ i \in DOMAIN backgroundChunks
          /\ backgroundChunks'[i].receivedChunks > backgroundChunks[i].receivedChunks
\* a start or an accepted chunk arms a timeout 60 seconds ahead; nothing else moves it
TimeoutArmed ==
    \A i \in DOMAIN backgroundChunks' :
        LET transfer == backgroundChunks'[i]
        IN /\ transfer.timer \in DOMAIN timers'
           /\ timers'[transfer.timer].imageId = i
           /\ IF Touched(i)
              THEN timers'[transfer.timer].due = now' + TimeoutMs
              ELSE /\ transfer.timer = backgroundChunks[i].timer
                   /\ timers'[transfer.timer] = timers[transfer.timer]

\* C18: a transfer in progress always has a timeout pending, 60 seconds after its start or
\* its last accepted chunk; when its timeout fires the transfer is removed; and a transfer
\* that a timeout removes after 60 idle seconds is reported with one Timeout event to the
\* room of the session it belongs to.
C18_IdleTransferTimesOut ==
    [][/\ TimeoutArmed
       /\ \A i \in DOMAIN backgroundChunks :
             LET transfer == backgroundChunks[i]
             IN /\ (last'.type = "timeout" /\ last'.arg.timer = transfer.timer)
                      => i \notin DOMAIN backgroundChunks'
                /\ (last'.type = "timeout" /\ Idle(transfer) /\ i \notin DOMAIN backgroundChunks')
                      => emits' = << TimeoutEvent(transfer.sessionId, i) >>]_vars

\* timers fire once they are due
SpecTransferFair == SpecTransfer /\ \A h \in 1..MaxTimers : WF_vars(TimerFires(h))
\* within one session an idle transfer is eventually removed or takes another chunk
IdleTransferEventuallyAborted ==
    \A i \in TransferImageIds :
        (i \in DOMAIN backgroundChunks /\ Idle(backgroundChunks[i]))
            ~> (i \notin DOMAIN backgroundChunks \/ ~Idle(backgroundChunks[i]))

\* C19: a disconnect removes every transfer the connection started and cancels its timeout,
\* leaves every other transfer and its timeout as they were and emits nothing; a chunk for
\* an imageId that is not registered changes nothing, so the removed transfer never completes.
C19_DisconnectDropsOwnTransfers ==
    [][LET m == last'
       IN /\ m.type = "disconnect"
             => /\ \A i \in DOMAIN backgroundChunks :
                      IF backgroundChunks[i].initiatorSocketId = m.socket
                      THEN /\ i \notin DOMAIN backgroundChunks'
                           /\ backgroundChunks[i].timer \notin DOMAIN timers'
                      ELSE /\ i \in DOMAIN backgroundChunks'
                           /\ backgroundChunks'[i] = backgroundChunks[i]
                           /\ backgroundChunks[i].timer \in DOMAIN timers'
                           /\ timers'[backgroundChunks[i].timer] = timers[backgroundChunks[i].timer]
                /\ DOMAIN backgroundChunks' \subseteq DOMAIN backgroundChunks
                /\ emits' = <<>>
          /\ (IsChunkStep(m) /\ m.arg.imageId \notin DOMAIN backgroundChunks)
             => /\ emits' = <<>>
                /\ persists' = <<>>
                /\ UNCHANGED <<backgroundChunks, timers, battlefieldSessions>>]_vars

\* a left and its upload of i1 is gone; b's upload of i2, one chunk in, goes on with its timeout
C19_Witness ==
    /\ last.type = "disconnect"
    /\ last.socket = "a"
    /\ delivered["i1"] = {}
    /\ "i1" \notin DOMAIN backgroundChunks
    /\ "i2" \in DOMAIN backgroundChunks
    /\ backgroundChunks["i2"].receivedChunks = 1
    /\ backgroundChunks["i2"].timer \in DOMAIN timers
    /\ Cardinality(DOMAIN timers) = 1

\* the chunk message m is accepted and is the last one its transfer waits for
Completing(m) ==
    /\ IsChunkStep(m)
    /\ ForTransfer(m)
    /\ StrLen(m.arg.chunk) <= 600 * 1024
    /\ m.arg.chunkIndex \in 0..(backgroundChunks[m.arg.imageId].totalChunks - 1)
    /\ m.arg.chunkIndex \notin Indexes(delivered[m.arg.imageId])
    /\ Cardinality(Indexes(delivered[m.arg.imageId])) + 1 = backgroundChunks[m.arg.imageId].totalChunks

\* C20: when a transfer completes with a payload of at most 10 MiB, the backgroundImage of
\* its session becomes the payload and no other session's battlefield changes, exactly one
\* background-transfer-complete goes to every connection in the session's room (the sender
\* too when it is in the room), one persistSessionData call is made for the session, and
\* the transfer is removed.
C20_CompletionUpdatesOwnSessionOnly ==
    [][LET m == last'
           i == m.arg.imageId
           s == backgroundChunks[i].sessionId
           n == backgroundChunks[i].totalChunks
           payload == ByIndex(delivered[i] \cup {<<m.arg.chunkIndex, m.arg.chunk>>}, n)
       IN (Completing(m) /\ StrLen(payload) <= 10 * 1024 * 1024)
          => /\ battlefieldSessions'[s].backgroundImage = payload
             /\ \A x \in SessionIds \ {s} :
                   /\ x \in DOMAIN battlefieldSessions' <=> x \in DOMAIN battlefieldSessions
                   /\ x \in DOMAIN battlefieldSessions
                         => battlefieldSessions'[x] = battlefieldSessions[x]
             /\ Len(emits') = 1
             /\ emits'[1].name = "background-transfer-complete"
             /\ emits'[1].data = [imageUrl |-> payload]
             /\ emits'[1].to = {c \in connected : s \in rooms[c]}
             /\ persists' = <<s>>
             /\ i \notin DOMAIN backgroundChunks']_vars

\* b sent the last chunk of a's upload to s1: both are in the room and get the image, and
\* the battlefield of s2, set by an earlier upload, is as it was
C20_Witness ==
    /\ IsChunkStep(last)
    /\ last.socket = "b"
    /\ last.sessionId = "s1"
    /\ Len(emits) = 1
    /\ emits[1].name = "background-transfer-complete"
    /\ emits[1].to = {"a", "b"}
    /\ ImageOf("s1") = <<"a", "b">>
    /\ ImageOf("s2") = <<"a", "b">>
    /\ persists = <<"s1">>
    /\ "i1" \notin DOMAIN backgroundChunks

(***************************************************************************)
(* Transfers: rejected starts, oversize images, duplicate chunks           *)
(***************************************************************************)
IsStart(m) == m.type = "background-transfer-start"

\* C21: a background-transfer-start with totalChunks over 100 registers no transfer and
\* arms no timer, leaves every transfer in progress and every pending timer as it was, and
\* sends one background-transfer-failed (Too many chunks) to the sending connection only.
C21_TooManyChunksRejected ==
    [][LET m == last'
       IN (IsStart(m) /\ m.arg.totalChunks > 100)
          => /\ backgroundChunks' = backgroundChunks
             /\ timers' = timers
             /\ Len(emits') = 1
             /\ emits'[1].name = "background-transfer-failed"
             /\ emits'[1].data = [imageId |-> m.arg.imageId, error |-> "Too many chunks"]
             /\ emits'[1].mode = "caller"
             /\ emits'[1].to = {m.socket}
             /\ persists' = <<>>
             /\ battlefieldSessions' = battlefieldSessions]_vars

\* the rejected start named an imageId whose transfer is half way, with the sender in a room
C21_Witness ==
    /\ IsStart(last)
    /\ last.arg.totalChunks > 100
    /\ last.arg.imageId \in DOMAIN backgroundChunks
    /\ backgroundChunks[last.arg.imageId].receivedChunks = 1
    /\ backgroundChunks[last.arg.imageId].timer \in DOMAIN timers
    /\ last.sessionId \in rooms[last.socket]
    /\ emits[1].to = {last.socket}

\* C22: when the last chunk of a transfer arrives and the chunks concatenated by index are
\* longer than 10 MiB, no battlefield changes, no background-transfer-complete is emitted
\* and no persistSessionData call is made; one background-transfer-failed goes to the
\* session's room, and the transfer and its timeout are gone.
C22_OversizeImageAborts ==
    [][LET m == last'
           i == m.arg.imageId
           n == backgroundChunks[i].totalChunks
           payload == ByIndex(delivered[i] \cup {<<m.arg.chunkIndex, m.arg.chunk>>}, n)
       IN (Completing(m) /\ StrLen(payload) > 10 * 1024 * 1024)
          => /\ battlefieldSessions' = battlefieldSessions
             /\ ~Emitted(emits', "background-transfer-complete")
             /\ persists' = <<>>
             /\ Len(emits') = 1
             /\ emits'[1].name = "background-transfer-failed"
             /\ emits'[1].data = [imageId |-> i, error |-> "Image too large after reconstruction"]
             /\ emits'[1].mode = "room"
             /\ emits'[1].room = backgroundChunks[i].sessionId
             /\ emits'[1].to = {c \in connected : backgroundChunks[i].sessionId \in rooms[c]}
             /\ i \notin DOMAIN backgroundChunks'
             /\ timers' = [h \in DOMAIN timers \ {backgroundChunks[i].timer} |-> timers[h]]]_vars

\* the eighteenth full chunk made 10.5 MiB: the joined sender is told, the image is not set
C22_Witness ==
    /\ IsChunkStep(last)
    /\ last.arg.chunkIndex = BigTotal - 1
    /\ last.arg.chunk = <<"L">>
    /\ Len(emits) = 1
    /\ emits[1].data.error = "Image too large after reconstruction"
    /\ emits[1].to = {last.socket}
    /\ ImageOf(last.sessionId) = NoImage
    /\ backgroundChunks = <<>>
    /\ timers = <<>>

\* the chunk message m repeats an index its transfer has already taken
Repeats(m) ==
    /\ IsChunkStep(m)
    /\ ForTransfer(m)
    /\ m.arg.chunkIndex \in 0..(backgroundChunks[m.arg.imageId].totalChunks - 1)
    /\ m.arg.chunkIndex \in Indexes(delivered[m.arg.imageId])
\* the step left the transfer with the slot's first payload, its count and its timeout,
\* emitted nothing and made no persistSessionData call
Ignored(m) ==
    /\ backgroundChunks' = backgroundChunks
    /\ backgroundChunks'[m.arg.imageId].chunks[m.arg.chunkIndex]
          = (CHOOSE q \in delivered[m.arg.imageId] : q[1] = m.arg.chunkIndex)[2]
    /\ timers' = timers
    /\ emits' = <<>>
    /\ persists' = <<>>
    /\ battlefieldSessions' = battlefieldSessions
\* a transfer completes only when every index 0..n-1 has been taken
CompletesWithAllIndexes ==
    LET m == last'
    IN Emitted(emits', "background-transfer-complete")
       => Indexes(delivered[m.arg.imageId] \cup {<<m.arg.chunkIndex, m.arg.chunk>>})
             = 0..(backgroundChunks[m.arg.imageId].totalChunks - 1)

\* C23 as stated: every chunk that repeats an index in range is ignored, and a transfer
\* completes only with all its indexes received.
C23_DuplicateIgnored ==
    [][(Repeats(last') => Ignored(last')) /\ CompletesWithAllIndexes]_vars

\* C23 for chunks of at most 600 KiB: the size check comes before the duplicate check.
C23_SmallDuplicateIgnored ==
    [][/\ (Repeats(last') /\ StrLen(last'.arg.chunk) <= 600 * 1024) => Ignored(last')
       /\ CompletesWithAllIndexes]_vars

\* chunk "b" came for index 0, which holds "a": the slot still holds "a"
C23_Witness ==
    /\ IsChunkStep(last)
    /\ last.arg.chunkIndex = 0
    /\ last.arg.chunk = <<"b">>
    /\ last.arg.imageId \in DOMAIN backgroundChunks
    /\ backgroundChunks[last.arg.imageId].sessionId = last.sessionId
    /\ backgroundChunks[last.arg.imageId].chunks[0] = <<"a">>
    /\ backgroundChunks[last.arg.imageId].receivedChunks = 1
    /\ emits = <<>>

IsBatchDelete(m) == m.type = "batch-delete-monsters"
Supplied(m) == {m.arg[k] : k \in 1..Len(m.arg)}
Keeping(seq, ids) == SelectSeq(seq, LAMBDA x : x \notin ids)
\* after the step none of the supplied ids is a monster, in the order or a piece, and what
\* belongs to the other ids is as before
RemovedAndOthersKept(m) ==
    LET s == m.sessionId
        ids == Supplied(m)
    IN /\ DOMAIN sessions'[s].monsters = DOMAIN MonstersOf(s) \ ids
       /\ DOMAIN battlefieldSessions'[s].pieces = DOMAIN PiecesOf(s) \ ids
       /\ Range(sessions'[s].monsterOrder) \cap ids = {}
       /\ \A x \in DOMAIN MonstersOf(s) \ ids : sessions'[s].monsters[x] = MonstersOf(s)[x]
       /\ \A x \in DOMAIN PiecesOf(s) \ ids : battlefieldSessions'[s].pieces[x] = PiecesOf(s)[x]
       /\ Keeping(sessions'[s].monsterOrder, ids) = Keeping(OrderOf(s), ids)

\* C25: after a batch-delete-monsters none of the supplied ids is a key of monsters, an
\* element of monsterOrder or a key of pieces; monsters, order entries and pieces of the
\* other ids are unchanged.
C25_BatchDeleteRemovesIds ==
    [][IsBatchDelete(last') => RemovedAndOthersKept(last')]_vars

\* the same holds when no id occurs twice in monsterOrder before the step
BatchDeleteOnDistinctOrder ==
    [][(IsBatchDelete(last') /\ NoDuplicates(OrderOf(last'.sessionId)))
          => RemovedAndOthersKept(last')]_vars

\* the events of the step are those of a delete that removed exactly the ids given
DeletedEvent(m, ids) ==
    /\ Len(emits') = 3
    /\ emits'[1].name = "monsters-deleted"
    /\ Range(emits'[1].data.monsterIds) = ids
    /\ NoDuplicates(emits'[1].data.monsterIds)
    /\ persists' = <<m.sessionId>>
\* nothing emitted, nothing persisted, the session's roster and pieces as they were
NoOp(m) ==
    /\ emits' = <<>>
    /\ persists' = <<>>
    /\ sessions'[m.sessionId].monsters = MonstersOf(m.sessionId)
    /\ sessions'[m.sessionId].monsterOrder = OrderOf(m.sessionId)
    /\ battlefieldSessions'[m.sessionId].pieces = PiecesOf(m.sessionId)

UnknownIds == {"zz"} \cup InheritedKeys
UnknownHpInputs ==
    {[monsterId |-> m, currentHp |-> 3, maxHp |-> 10] : m \in {"m1"} \cup UnknownIds}
      \cup {[monsterId |-> m, currentHp |-> 0, maxHp |-> 10, tempHp |-> 2] : m \in UnknownIds}
UnknownNameInputs == {[monsterId |-> m, name |-> "Zed"] : m \in {"m1"} \cup UnknownIds}
UnknownNext ==
    \/ Tick(MaxTicks * TickMs)
    \/ \E socket \in CombatSockets, sessionId \in CombatSessionIds :
          \/ JoinSession(socket, sessionId)
          \/ AddMonster(socket, sessionId, [id |-> "m1", name |-> "Orc"])
          \/ \E data \in UnknownHpInputs : UpdateHp(socket, sessionId, data)
          \/ \E data \in UnknownNameInputs : UpdateName(socket, sessionId, data)

SpecUnknown == Init /\ [][UnknownNext]_vars

IsUpdate(m) == m.type \in {"update-hp", "update-name"}
\* the step leaves the roster of the session as it was and tells nobody
RosterUntouched(s) ==
    /\ sessions'[s].monsters = MonstersOf(s)
    /\ sessions'[s].monsterOrder = OrderOf(s)
    /\ s \in DOMAIN sessions => sessions'[s].lastUpdated = sessions[s].lastUpdated
    /\ emits' = <<>>
    /\ persists' = <<>>
    /\ writes' = writes

\* C27: an update-hp or update-name for an id the session has no monster for creates and
\* changes no monster, leaves monsterOrder and lastUpdated as they were, emits nothing and
\* schedules no write.
C27_UnknownMonsterIsNoOp ==
    [][LET m == last'
       IN IsUpdate(m) /\ m.arg.monsterId \notin DOMAIN MonstersOf(m.sessionId)
          => RosterUntouched(m.sessionId)]_vars

\* the same for the ids no object inherits a property for
OrdinaryUnknownMonsterIsNoOp ==
    [][LET m == last'
       IN /\ IsUpdate(m)
          /\ m.arg.monsterId \notin DOMAIN MonstersOf(m.sessionId)
          /\ m.arg.monsterId \notin InheritedKeys
          => RosterUntouched(m.sessionId) /\ inherited' = inherited]_vars

(***************************************************************************)
(* Messages as they arrive: a record that may lack any of its fields.  A   *)
(* handler first tests the fields it needs and returns if one is missing.  *)
(***************************************************************************)
\* !rec.fld is false
Truthy(rec, fld, falsy) == Defined(rec, fld) /\ Get(rec, fld) # falsy

\* request-latest-state, request-latest-dice-state, request-latest-battlefield-state
RequestLatestState(socket, sessionId) ==
    /\ socket \in connected
    /\ last' = Msg("request-latest-state", socket, sessionId, <<>>)
    /\ sessions' = getSession(sessionId)
    /\ emits' = << ToCaller(socket, "session-updated", sessions'[sessionId]) >>
    /\ persists' = <<>>
    /\ UNCHANGED <<diceSessions, battlefieldSessions, backgroundChunks, timers, now, connected,
                   rooms, insertionOrder, rollLog, delivered>>
    /\ Persisting

RequestLatestDiceState(socket, sessionId) ==
    /\ socket \in connected
    /\ last' = Msg("request-latest-dice-state", socket, sessionId, <<>>)
    /\ diceSessions' = getDiceSession(sessionId)
    /\ emits' = << ToCaller(socket, "dice-state-updated", diceSessions'[sessionId].diceState),
                   ToCaller(socket, "roll-history-sync", diceSessions'[sessionId].rollHistory) >>
    /\ persists' = <<>>
    /\ UNCHANGED <<sessions, battlefieldSessions, backgroundChunks, timers, now, connected,
                   rooms, insertionOrder, rollLog, delivered>>
    /\ Persisting

RequestLatestBattlefieldState(socket, sessionId) ==
    /\ socket \in connected
    /\ last' = Msg("request-latest-battlefield-state", socket, sessionId, <<>>)
    /\ battlefieldSessions' = getBattlefieldSession(sessionId)
    /\ emits' = << ToCaller(socket, "battlefield-state-updated",
                            [state |-> battlefieldSessions'[sessionId]]) >>
    /\ persists' = <<>>
    /\ UNCHANGED <<sessions, diceSessions, backgroundChunks, timers, now, connected,
                   rooms, insertionOrder, rollLog, delivered>>
    /\ Persisting

\* the presence test of each handler holds: the message goes on
ValidMessage(type, data) ==
    /\ Truthy(data, "sessionId", "")
    /\ CASE type = "add-monster" ->
                Defined(data, "monster") /\ Truthy(Get(data, "monster"), "id", "")
         [] type = "update-hp" ->
                Truthy(data, "monsterId", "") /\ Defined(data, "currentHp") /\ Defined(data, "maxHp")
         [] type = "update-name" -> Truthy(data, "monsterId", "") /\ Defined(data, "name")
         [] type = "batch-delete-monsters" -> Defined(data, "monsterIds")
         [] type = "reorder-monsters" -> Defined(data, "order")
         [] type = "update-dice-state" -> Defined(data, "diceState")
         [] type = "roll-dice" ->
                /\ Truthy(data, "playerName", "")
                /\ Defined(data, "diceConfig")
                /\ Defined(Get(data, "diceConfig"), "dice")
         [] type = "reset-dice-request" -> Truthy(data, "playerName", "")
         [] type = "move-piece" ->
                Truthy(data, "pieceId", "") /\ Defined(data, "x") /\ Defined(data, "y")
         [] type = "update-background" -> Defined(data, "imageUrl")
         [] type = "background-transfer-start" ->
                Truthy(data, "imageId", "") /\ Truthy(data, "totalChunks", 0)
         [] type = "background-transfer-chunk" ->
                /\ Truthy(data, "imageId", "")
                /\ Defined(data, "chunkIndex")
                /\ Truthy(data, "chunk", <<>>)
         [] type = "update-scale" -> Defined(data, "scale")
         [] type = "update-grid-visibility" -> Defined(data, "isVisible")
         [] type = "update-piece-size" -> Defined(data, "size")
         [] OTHER -> TRUE

\* console.warn(...); return;
Dropped(type, socket, data) ==
    /\ socket \in connected
    /\ last' = Msg(type, socket, "", data)
    /\ emits' = <<>>
    /\ persists' = <<>>
    /\ UNCHANGED <<sessions, diceSessions, battlefieldSessions, backgroundChunks, timers, now,
                   connected, rooms, insertionOrder, rollLog, delivered>>
    /\ Persisting

\* socket.on(type, (data) => ...): the presence test, then the handler
Receive(socket, type, data) ==
    IF ~ValidMessage(type, data) THEN Dropped(type, socket, data)
    ELSE LET s == data.sessionId
         IN CASE type = "join-session" -> JoinSession(socket, s)
              [] type = "request-latest-state" -> RequestLatestState(socket, s)
              [] type = "request-latest-dice-state" -> RequestLatestDiceState(socket, s)
              [] type = "request-latest-battlefield-state" ->
                     RequestLatestBattlefieldState(socket, s)
              [] type = "add-monster" -> AddMonster(socket, s, data.monster)
              [] type = "update-hp" -> UpdateHp(socket, s, Remove(data, "sessionId"))
              [] type = "update-name" -> UpdateName(socket, s, Remove(data, "sessionId"))
              [] type = "batch-delete-monsters" -> BatchDeleteMonsters(socket, s, data.monsterIds)
              [] type = "reorder-monsters" -> ReorderMonsters(socket, s, data.order)
              [] type = "update-dice-state" -> UpdateDiceState(socket, s, data.diceState)
              [] type = "roll-dice" -> RollDice(socket, s, data.playerName, data.diceConfig)
              [] type = "reset-dice-request" -> ResetDiceRequest(socket, s, data.playerName)
              [] type = "move-piece" -> MovePiece(socket, s, Remove(data, "sessionId"))
              [] type = "update-background" -> UpdateBackground(socket, s, data.imageUrl)
              [] type = "background-transfer-start" ->
                     TransferStart(socket, s, data.imageId, data.totalChunks)
              [] type = "background-transfer-chunk" ->
                     TransferChunk(socket, s, Remove(data, "sessionId"))
              [] type = "update-scale" -> UpdateScale(socket, s, data.scale)
              [] type = "update-grid-visibility" -> UpdateGridVisibility(socket, s, data.isVisible)
              [] type = "update-piece-size" -> UpdatePieceSize(socket, s, data.size)

\* ---- one complete message of every type, and the same message short of one field ----
\* The values the settings messages carry are the ones a fresh session has.
In(type, data) == [type |-> type, data |-> data]
CompleteMessages ==
    {In("join-session", [sessionId |-> "s1"]),
     In("request-latest-state", [sessionId |-> "s1"]),
     In("request-latest-dice-state", [sessionId |-> "s1"]),
     In("request-latest-battlefield-state", [sessionId |-> "s1"]),
     In("add-monster", [sessionId |-> "s1", monster |-> [id |-> "m1", name |-> "Orc"]]),
     In("update-hp", [sessionId |-> "s1", monsterId |-> "m1", currentHp |-> 3, maxHp |-> 10]),
     In("update-name", [sessionId |-> "s1", monsterId |-> "m1", name |-> "Orc"]),
     In("batch-delete-monsters", [sessionId |-> "s1", monsterIds |-> <<"m1">>]),
     In("reorder-monsters", [sessionId |-> "s1", order |-> <<"m1">>]),
     In("update-dice-state", [sessionId |-> "s1", diceState |-> ZeroDiceState]),
     In("roll-dice", [sessionId |-> "s1", playerName |-> "Ann",
                      diceConfig |-> DiceConfig([d20 |-> 0], FALSE, FALSE)]),
     In("reset-dice-request", [sessionId |-> "s1", playerName |-> "Ann"]),
     In("move-piece", [sessionId |-> "s1", pieceId |-> "m1", x |-> 50, y |-> 50]),
     In("update-background", [sessionId |-> "s1", imageUrl |-> <<"a">>]),
     In("background-transfer-start", [sessionId |-> "s1", imageId |-> "i1", totalChunks |-> 1]),
     In("background-transfer-chunk",
        [sessionId |-> "s1", imageId |-> "i1", chunkIndex |-> 0, chunk |-> <<"a">>,
         isLastChunk |-> TRUE]),
     In("update-scale", [sessionId |-> "s1", scale |-> DefaultScale]),
     In("update-grid-visibility", [sessionId |-> "s1", isVisible |-> TRUE]),
     In("update-piece-size", [sessionId |-> "s1", size |-> DefaultPieceSize])}
\* the fields a message of the type has to carry; isLastChunk is informational
Required(type) ==
    {"sessionId"} \cup
    CASE type = "add-monster" -> {"monster"}
      [] type = "update-hp" -> {"monsterId", "currentHp", "maxHp"}
      [] type = "update-name" -> {"monsterId", "name"}
      [] type = "batch-delete-monsters" -> {"monsterIds"}
      [] type = "reorder-monsters" -> {"order"}
      [] type = "update-dice-state" -> {"diceState"}
      [] type = "roll-dice" -> {"playerName", "diceConfig"}
      [] type = "reset-dice-request" -> {"playerName"}
      [] type = "move-piece" -> {"pieceId", "x", "y"}
      [] type = "update-background" -> {"imageUrl"}
      [] type = "background-transfer-start" -> {"imageId", "totalChunks"}
      [] type = "background-transfer-chunk" -> {"imageId", "chunkIndex", "chunk"}
      [] type = "update-scale" -> {"scale"}
      [] type = "update-grid-visibility" -> {"isVisible"}
      [] type = "update-piece-size" -> {"size"}
      [] OTHER -> {}
\* a field of the message, or of the record it carries, is missing
Lacks(type, data) ==
    \/ Required(type) \ DOMAIN data # {}
    \/ type = "add-monster" /\ "id" \notin DOMAIN data.monster
    \/ type = "roll-dice" /\ "dice" \notin DOMAIN data.diceConfig
ShortMessages ==
    {In(m.type, Remove(m.data, f)) : m \in CompleteMessages, f \in {"sessionId", "monster",
        "monsterId", "currentHp", "maxHp", "name", "monsterIds", "order", "diceState", "playerName",
        "diceConfig", "pieceId", "x", "y", "imageUrl", "imageId", "totalChunks", "chunkIndex",
        "chunk", "scale", "isVisible", "size"}}
      \cup {In(m.type, <<>>) : m \in CompleteMessages}
      \cup {In("add-monster", [sessionId |-> "s1", monster |-> [name |-> "Orc"]]),
            In("roll-dice", [sessionId |-> "s1", playerName |-> "Ann",
                             diceConfig |-> [advantage |-> TRUE]])}
MalformedMessages == {m \in ShortMessages : Lacks(m.type, m.data)}
\* complete messages that name a monster every object inherits
InheritedMessages ==
    {In("update-hp", [sessionId |-> "s1", monsterId |-> k, currentHp |-> 0, maxHp |-> 100]) :
        k \in InheritedKeys}
MalformedSockets == {"a"}

MalformedNext ==
    \E socket \in MalformedSockets,
       m \in CompleteMessages \cup MalformedMessages \cup InheritedMessages :
        /\ m.type = "roll-dice" /\ "sessionId" \in DOMAIN m.data
              => Len(rollLog[m.data.sessionId]) < MaxDiceRolls
        /\ Receive(socket, m.type, m.data)

SpecMalformed == Init /\ [][MalformedNext]_vars

\* the step changes no registry and no transfer, reaches nobody and schedules no write
NothingHappens ==
    /\ UNCHANGED <<sessions, diceSessions, battlefieldSessions, backgroundChunks, timers, rooms,
                   db, writes>>
    /\ emits' = <<>>
    /\ persists' = <<>>

\* C28: a message of any type that lacks a required field is dropped: no session entry is
\* created or changed in any registry, no transfer is created or changed, no event is sent to
\* any connection, the sender included, and no persistence write is scheduled.
C28_MalformedMessageDropped ==
    [][\A socket \in MalformedSockets, m \in MalformedMessages :
          last'.type = m.type /\ Receive(socket, m.type, m.data) => NothingHappens]_vars

\* the same while Object.prototype is as the process found it
MalformedMessageDroppedWhileNothingInherited ==
    [][\A socket \in MalformedSockets, m \in MalformedMessages :
          /\ inherited = <<>>
          /\ last'.type = m.type
          /\ Receive(socket, m.type, m.data)
          => NothingHappens]_vars

\* ---- two connections, each in the room or not, every message type from either ----
AudienceNext ==
    \/ \E socket \in Sockets : Disconnect(socket)
    \/ \E socket \in Sockets, m \in CompleteMessages :
          /\ m.type = "roll-dice" => Len(rollLog[m.data.sessionId]) < MaxDiceRolls
          /\ Receive(socket, m.type, m.data)

SpecAudience == Init /\ [][AudienceNext]_vars

OthersTypes == {"update-dice-state", "update-background", "update-scale",
                "update-grid-visibility", "update-piece-size"}
RoomTypes == {"add-monster", "update-hp", "update-name", "batch-delete-monsters",
              "reorder-monsters", "roll-dice", "reset-dice-request"}
\* the connections joined to the room of the session when the message arrives
JoinedTo(s) == {c \in Sockets : c \in connected /\ s \in rooms[c]}
EveryEventReaches(audience) == \A k \in 1..Len(emits') : emits'[k].to = audience

\* C29: the events of update-dice-state, update-background, update-scale,
\* update-grid-visibility, update-piece-size and of a move-piece on an existing piece reach
\* every connection joined to the session's room except the sender; the events of add-monster,
\* update-hp, update-name, batch-delete-monsters, reorder-monsters, roll-dice and
\* reset-dice-request reach every connection joined to the room, the sender included; and no
\* event sent to a room reaches a connection that is not joined to it.
C29_FanOutAudience ==
    [][LET m == last'
           s == m.sessionId
       IN /\ m.type \in OthersTypes => EveryEventReaches(JoinedTo(s) \ {m.socket})
          /\ m.type = "move-piece" /\ m.arg.pieceId \in DOMAIN PiecesOf(s)
                => EveryEventReaches(JoinedTo(s) \ {m.socket})
          /\ m.type \in RoomTypes => EveryEventReaches(JoinedTo(s))
          /\ \A k \in 1..Len(emits') :
                emits'[k].mode # "caller" => emits'[k].to \subseteq JoinedTo(emits'[k].room)]_vars

\* b moved an existing piece with a and b in the room: the event went to a alone
C29_Witness ==
    /\ last.type = "move-piece"
    /\ last.socket = "b"
    /\ rooms["a"] = {"s1"}
    /\ rooms["b"] = {"s1"}
    /\ Len(emits) = 1
    /\ emits[1].name = "piece-moved"
    /\ emits[1].to = {"a"}

\* ---- roster mutations in a room of two while the store answers in any order ----
OrderSessionIds == {"s1"}
OrderSenders == {"a"}
OrderMonsters == {[id |-> "m1"]}
OrderLists == {<<"m1">>, <<"m2", "m1">>}
OrderNext ==
    \/ \E socket \in Sockets, sessionId \in OrderSessionIds : JoinSession(socket, sessionId)
    \/ \E socket \in OrderSenders, sessionId \in OrderSessionIds :
          \/ \E monster \in OrderMonsters : AddMonster(socket, sessionId, monster)
          \/ \E order \in OrderLists : ReorderMonsters(socket, sessionId, order)
    \/ \E w \in writes : WriteDone(w)
    \/ \E w \in writes : WriteFails(w)

SpecOrder == InitStore /\ [][OrderNext]_vars

IsStoreStep(m) == m.type \in {"write-done", "write-failed"}
\* the step calls persistSessionData
IsMutation(m) == ~IsStoreStep(m) /\ persists' # <<>>
EventNamed(name) == {k \in 1..Len(emits') : emits'[k].name = name}
\* the events of the step show the roster as the step left it
ShowsRosterAfter(m) ==
    LET s == m.sessionId
    IN /\ \A k \in EventNamed("monsters-reordered") :
              emits'[k].data = [order |-> sessions'[s].monsterOrder]
       /\ \A k \in EventNamed("monster-updated") :
              emits'[k].data = sessions'[s].monsters[emits'[k].data.id]
       /\ \A k \in EventNamed("battlefield-state-updated") :
              emits'[k].data = [state |-> battlefieldSessions'[s]]

\* C30: a mutation changes the registries, emits all its events and issues its write in one
\* step, the events showing the state that step produced and the write carrying it; a step
\* in which the store answers a write, whenever it comes, emits nothing and changes no
\* registry.  The events therefore reach the room in the order of the mutations, whatever
\* the order in which the writes complete.
C30_BroadcastWithMutation ==
    [][LET m == last'
       IN /\ IsMutation(m)
                => /\ emits' # <<>>
                   /\ ShowsRosterAfter(m)
                   /\ \A w \in writes' \ writes :
                         w.doc = UpdateOf(Kinds[w.stage], w.sessionId, sessions', diceSessions',
                                          battlefieldSessions')
          /\ IsStoreStep(m)
                => /\ emits' = <<>>
                   /\ UNCHANGED <<sessions, diceSessions, battlefieldSessions, rooms>>]_vars

\* the write of an earlier mutation completes after a later mutation was applied and
\* broadcast: the stored order is no longer the session's
C30_Witness ==
    /\ last.type = "write-done"
    /\ last.arg.stage = 1
    /\ last.arg.by = "handler"
    /\ last.arg.doc.monsterOrder # sessions[last.sessionId].monsterOrder
    /\ emits = <<>>
    /\ \A c \in Sockets : last.sessionId \in rooms[c]

\* ---- rolls, resets and joins in a room of two, the store answering ----
ResetSenders == {"a"}
ResetRolls == HistoryInputs
ResetNext ==
    \/ \E socket \in Sockets, sessionId \in DiceSessionIds : JoinSession(socket, sessionId)
    \/ \E socket \in ResetSenders, sessionId \in DiceSessionIds :
          \/ \E diceState \in DiceStateInputs : UpdateDiceState(socket, sessionId, diceState)
          \/ /\ Len(rollLog[sessionId]) < MaxDiceRolls
             /\ \E diceConfig \in ResetRolls : RollDice(socket, sessionId, "Ann", diceConfig)
          \/ ResetDiceRequest(socket, sessionId, "Ann")
    \/ \E w \in writes : WriteDone(w)

SpecReset == InitStore /\ [][ResetNext]_vars

AllZeroDice == [dice |-> [d4 |-> 0, d6 |-> 0, d8 |-> 0, d10 |-> 0, d12 |-> 0, d20 |-> 0],
                advantage |-> FALSE, disadvantage |-> FALSE]
HistorySyncs == {k \in 1..Len(emits') : emits'[k].name = "roll-history-sync"}

\* C31: a reset-dice-request empties rollHistory, sets diceState to all-zero counts with
\* advantage and disadvantage false, and emits to the whole room reset-dice and then
\* dice-state-updated with the zeroed state; a join with no roll since the reset is sent an
\* empty roll history.
C31_ResetClearsDice ==
    [][LET m == last'
           s == m.sessionId
       IN /\ m.type = "reset-dice-request"
                => /\ diceSessions'[s].rollHistory = <<>>
                   /\ diceSessions'[s].diceState = AllZeroDice
                   /\ Len(emits') = 2
                   /\ emits'[1].name = "reset-dice"
                   /\ emits'[2].name = "dice-state-updated"
                   /\ emits'[2].data = AllZeroDice
                   /\ \A k \in 1..2 : emits'[k].to = JoinedTo(s)
          /\ m.type = "join-session" /\ rollLog[s] = <<>>
                => /\ HistorySyncs # {}
                   /\ \A k \in HistorySyncs :
                         emits'[k].data = <<>> /\ emits'[k].to = {m.socket}]_vars

\* b joins after a roll was stored and the dice were reset: its history is empty
C31_Witness ==
    /\ last.type = "join-session"
    /\ last.socket = "b"
    /\ "s1" \in DOMAIN db.dice
    /\ db.dice["s1"].rollHistory # <<>>
    /\ diceSessions["s1"].rollHistory = <<>>
    /\ emits[3].name = "roll-history-sync"
    /\ emits[3].data = <<>>

\* ---- monsters added to a session nobody joined, the store answering when it likes ----
\* The session then has a combat and a battlefield entry and no dice entry, and every
\* add-monster adds a monster and its piece: the pieces a call found when it was issued are
\* the pieces of the monsters its combat upsert carries.
StaleMonsters == {[id |-> "m1"], [id |-> "m2"]}
StaleNext ==
    \/ \E monster \in StaleMonsters : AddMonster("a", "s1", monster)
    \/ \E w \in writes : WriteDone(w)

SpecStale == InitStore /\ [][StaleNext]_vars

PieceIdsIn(doc) == {doc.pieces[k].id : k \in 1..Len(doc.pieces)}

\* C32: every upsert of a persistence call carries the state its kind had when the call
\* was issued: the battlefield upsert that follows the combat upsert of a call holds the
\* pieces of the monsters that combat upsert held, and not those of monsters added while
\* the combat upsert was in flight.
C32_UpsertsCarryStateAtIssue ==
    [][LET w == last'.arg
       IN last'.type = "write-done" /\ w.stage = 1
          => \A next \in writes' \ writes :
                next.stage = 3 => PieceIdsIn(next.doc) = DOMAIN w.doc.monsters]_vars

\* the first upsert of a call is read from the registries as the handler left them
FirstUpsertCarriesStateAtIssue ==
    [][~IsStoreStep(last')
          => \A w \in writes' \ writes :
                w.doc = UpdateOf(Kinds[w.stage], w.sessionId, sessions', diceSessions',
                                 battlefieldSessions')]_vars

\* C33: a transfer is aborted with Timeout only by its own timer, the one armed at its
\* start or rearmed at its last accepted chunk, and only once the 60 seconds of that timer
\* have passed; a timer armed for an earlier transfer of the imageId never aborts the
\* transfer now registered under it.
C33_TimeoutOnlyWhenIdle ==
    [][\A i \in DOMAIN backgroundChunks :
          (last'.type = "timeout" /\ last'.arg.imageId = i /\ i \notin DOMAIN backgroundChunks')
             => /\ last'.arg.timer = backgroundChunks[i].timer
                /\ Idle(backgroundChunks[i])]_vars

\* the timer of a transfer fires only when its 60 seconds have passed
OwnTimerFiresWhenIdle ==
    [][\A i \in DOMAIN backgroundChunks :
          (last'.type = "timeout" /\ last'.arg.timer = backgroundChunks[i].timer)
             => Idle(backgroundChunks[i])]_vars

\* ---- one client's transfers, some of them started with a negative chunk count ----
NegativeTotals == {-1}
NegativeNext ==
    \/ TransferNext
    \/ \E socket \in TransferSockets, sessionId \in TransferSessionIds,
          imageId \in TransferImageIds, totalChunks \in NegativeTotals :
            TransferStart(socket, sessionId, imageId, totalChunks)

SpecNegative == Init /\ [][NegativeNext]_vars

\* the step registered a fresh transfer for the message with a timeout 60 seconds ahead
Registered(m) ==
    LET i == m.arg.imageId
    IN /\ i \in DOMAIN backgroundChunks'
       /\ LET transfer == backgroundChunks'[i]
          IN /\ DOMAIN transfer.chunks = 0..(m.arg.totalChunks - 1)
             /\ \A k \in DOMAIN transfer.chunks : transfer.chunks[k] = EmptySlot
             /\ transfer.receivedChunks = 0
             /\ transfer.totalChunks = m.arg.totalChunks
             /\ transfer.sessionId = m.sessionId
             /\ transfer.initiatorSocketId = m.socket
             /\ transfer.timer \in DOMAIN timers'
             /\ timers'[transfer.timer].due = now + 60000

\* C34: every background-transfer-start with totalChunks not over 100, negative values
\* included, leaves the process running with a transfer registered under the imageId:
\* totalChunks empty slots, receivedChunks 0, the sender as initiator, a timeout armed 60
\* seconds ahead.
C34_StartRegistersTransfer ==
    [][LET m == last'
       IN IsStart(m) /\ m.arg.totalChunks <= 100
          => proc'.state = "running" /\ Registered(m)]_vars

\* the same for the starts with a positive chunk count
PositiveStartRegistersTransfer ==
    [][LET m == last'
       IN IsStart(m) /\ m.arg.totalChunks <= 100 /\ m.arg.totalChunks > 0
          => proc'.state = "running" /\ Registered(m)]_vars

\* the positions of emits' that hold a terminal event of a transfer sent to a room
TerminalEvents(room) ==
    {k \in DOMAIN emits' :
        /\ emits'[k].name \in {"background-transfer-complete", "background-transfer-failed"}
        /\ emits'[k].mode = "room"
        /\ emits'[k].room = room}

\* the step ends the transfer registered under i: it is removed, or a start replaces it
Replaced(i) == IsStart(last') /\ last'.arg.imageId = i /\ last'.arg.totalChunks <= 100
Ends(i) == i \notin DOMAIN backgroundChunks' \/ Replaced(i)

\* C35: every accepted transfer whose initiator stays connected ends with exactly one
\* terminal event, background-transfer-complete or background-transfer-failed, sent to the
\* room of its session: the step that ends a transfer emits one, and no other step does.
C35_OneTerminalEvent ==
    [][\A i \in DOMAIN backgroundChunks :
          Ends(i) => Cardinality(TerminalEvents(backgroundChunks[i].sessionId)) = 1]_vars

\* the same for the transfers that are removed, not replaced by another start
RemovedTransferHasOneTerminalEvent ==
    [][\A i \in DOMAIN backgroundChunks :
          i \notin DOMAIN backgroundChunks'
             => Cardinality(TerminalEvents(backgroundChunks[i].sessionId)) = 1]_vars

\* a step that removes no transfer sends no terminal event to a room
NoTerminalEventWithoutRemoval ==
    [][(\A i \in DOMAIN backgroundChunks : i \in DOMAIN backgroundChunks')
          => \A s \in TransferSessionIds : TerminalEvents(s) = {}]_vars

\* ---- monsters and pieces whose id is a name every object answers to ----
NamedIds == {"m1"} \cup ObjectMethods
NamedNext ==
    \E socket \in CombatSockets, sessionId \in CombatSessionIds :
        \/ JoinSession(socket, sessionId)
        \/ \E id \in NamedIds : AddMonster(socket, sessionId, [id |-> id])
        \/ \E id \in NamedIds : BatchDeleteMonsters(socket, sessionId, <<id>>)
        \/ \E id \in NamedIds \cup {"zz"}, x \in {120, 170} :
              MovePiece(socket, sessionId, [pieceId |-> id, x |-> x, y |-> 80])

SpecNamed == Init /\ [][NamedNext]_vars

\* Object.keys of a session's monsters and of its pieces
MonsterIdsOf(s) == IF s \in DOMAIN sessions THEN DOMAIN sessions[s].monsters ELSE {}
PieceIdsOf(s) == IF s \in DOMAIN battlefieldSessions THEN DOMAIN battlefieldSessions[s].pieces ELSE {}
PiecesMatchMonsters == \A s \in SessionIds : PieceIdsOf(s) = MonsterIdsOf(s)
\* a move-piece adds no piece and sends no battlefield-state-updated
MoveNeverCreates ==
    last'.type = "move-piece"
       => /\ \A s \in SessionIds : PieceIdsOf(s)' = PieceIdsOf(s)
          /\ \A k \in DOMAIN emits' : emits'[k].name # "battlefield-state-updated"

\* C36: from empty registries the piece ids of a session are its monster ids after every
\* message, so that a move-piece never creates a piece from a monster and never emits
\* battlefield-state-updated.
C36_PiecesAreMonsters == []PiecesMatchMonsters /\ [][MoveNeverCreates]_vars

\* ---- a roster whose monsters are added, renamed, hurt and moved ----
CardNext ==
    \E socket \in CombatSockets, sessionId \in CombatSessionIds :
        \/ JoinSession(socket, sessionId)
        \/ \E monster \in MonsterInputs : AddMonster(socket, sessionId, monster)
        \/ \E data \in HpInputs : UpdateHp(socket, sessionId, data)
        \/ \E data \in NameInputs : UpdateName(socket, sessionId, data)
        \/ \E data \in MoveInputs : MovePiece(socket, sessionId, data)

SpecCard == Init /\ [][CardNext]_vars

\* what a piece copies from its monster
CardOf(rec) == [name |-> rec.name, type |-> rec.type, currentHp |-> rec.currentHp, maxHp |-> rec.maxHp]

\* C37: in every reachable state each battlefield piece has the name, type, currentHp and
\* maxHp of the monster of the same id, after any sequence of add-monster, update-hp,
\* update-name and move-piece messages.
C37_PieceShowsItsMonster ==
    \A s \in DOMAIN battlefieldSessions :
        \A p \in DOMAIN battlefieldSessions[s].pieces :
            /\ s \in DOMAIN sessions
            /\ p \in DOMAIN sessions[s].monsters
            /\ CardOf(battlefieldSessions[s].pieces[p]) = CardOf(sessions[s].monsters[p])

\* a piece is created with what its monster shows, and keeps that whatever happens to the monster
PieceKeepsWhatItWasCreatedWith ==
    [][\A s \in DOMAIN battlefieldSessions' :
          \A p \in DOMAIN battlefieldSessions'[s].pieces :
              IF s \in DOMAIN battlefieldSessions /\ p \in DOMAIN battlefieldSessions[s].pieces
              THEN CardOf(battlefieldSessions'[s].pieces[p]) = CardOf(battlefieldSessions[s].pieces[p])
              ELSE /\ s \in DOMAIN sessions'
                   /\ p \in DOMAIN sessions'[s].monsters
                   /\ CardOf(battlefieldSessions'[s].pieces[p]) = CardOf(sessions'[s].monsters[p])]_vars

\* the indexes of a transfer's array that hold a chunk
Filled(transfer) == {k \in DOMAIN transfer.chunks : transfer.chunks[k] # EmptySlot}

\* C38: for every transfer in progress receivedChunks is the number of filled slots, at
\* least 0 and below totalChunks (a transfer that reaches totalChunks is removed by the
\* step that fills it), and every filled slot has an index in 0..totalChunks-1.
C38_ReceivedCountsFilledSlots ==
    \A i \in DOMAIN backgroundChunks :
        LET transfer == backgroundChunks[i]
        IN /\ transfer.receivedChunks = Cardinality(Filled(transfer))
           /\ transfer.receivedChunks >= 0
           /\ transfer.receivedChunks < transfer.totalChunks
           /\ Filled(transfer) \subseteq 0..(transfer.totalChunks - 1)

\* a chunk has left a transfer one chunk short of complete
C38_Witness ==
    /\ last.type = "background-transfer-chunk"
    /\ \E i \in DOMAIN backgroundChunks :
          /\ backgroundChunks[i].totalChunks = MaxChunks
          /\ backgroundChunks[i].receivedChunks = MaxChunks - 1
          /\ Filled(backgroundChunks[i]) # {}

\* the latest roll-dice set both flags
BothFlags == last.type = "roll-dice" /\ last.arg.diceConfig.advantage /\ last.arg.diceConfig.disadvantage

\* C39: a roll-dice that sets both advantage and disadvantage is resolved as advantage:
\* every roll's finalRoll is the larger of roll1 and roll2, and every roll is flagged with
\* isAdvantage and isDisadvantage both true.
C39_BothFlagsIsAdvantage ==
    BothFlags =>
        \A diceType \in DOMAIN LastRoll.rolls :
            \A i \in 1..Len(LastRoll.rolls[diceType].rolls) :
                LET entry == LastRoll.rolls[diceType].rolls[i]
                IN /\ entry.finalRoll = Max2(entry.roll1, entry.roll2)
                   /\ entry.isAdvantage = TRUE
                   /\ entry.isDisadvantage = TRUE

\* both flags, a d4 that came up 1 and 3
C39_Witness ==
    /\ BothFlags
    /\ "d4" \in DOMAIN LastRoll.rolls
    /\ LastRoll.rolls["d4"].rolls[1].roll1 = 1
    /\ LastRoll.rolls["d4"].rolls[1].roll2 = 3
    /\ LastRoll.rolls["d4"].rolls[1].finalRoll = 3
    /\ LastRoll.rolls["d4"].subtotal = 3

\* ---- rolls that name no die to roll, a stored dice state, a long history ----
EmptyRollInputs == {DiceConfig([d20 |-> 0], FALSE, FALSE), DiceConfig([d5 |-> 1], TRUE, FALSE)}
EmptyRollNext ==
    \/ Tick(MaxHistoryTicks * TickMs)
    \/ \E socket \in DiceSockets, sessionId \in DiceSessionIds :
        \/ \E diceState \in DiceStateInputs : UpdateDiceState(socket, sessionId, diceState)
        \/ /\ Len(rollLog[sessionId]) < MaxHistoryRolls
           /\ \E diceConfig \in EmptyRollInputs : RollDice(socket, sessionId, "Ann", diceConfig)

SpecEmptyRoll == Init /\ [][EmptyRollNext]_vars

\* no die type of the message is one of the six with a quantity above zero
NoValidDie(diceConfig) ==
    \A diceType \in DOMAIN diceConfig.dice :
        diceConfig.dice[diceType] <= 0 \/ diceType \notin DOMAIN Sides
DiceStateOf(s) == IF s \in DOMAIN diceSessions THEN diceSessions[s].diceState ELSE ZeroDiceState

\* C40: a roll-dice that names no valid die still appends a record with empty rolls and
\* grandTotal 0 to rollHistory, the oldest record leaving when 50 are stored, broadcasts
\* it as dice-rolled to the room and schedules a persistence write; no roll-dice changes
\* the stored diceState.
C40_EmptyRollIsRecorded ==
    [][\A s \in DiceSessionIds :
          (last'.type = "roll-dice" /\ last'.sessionId = s)
             => /\ DiceStateOf(s)' = DiceStateOf(s)
                /\ NoValidDie(last'.arg.diceConfig)
                      => LET before == HistoryOf(s)
                             after == HistoryOf(s)'
                             record == [playerName |-> last'.arg.playerName, rolls |-> <<>>,
                                        grandTotal |-> 0, timestamp |-> now]
                         IN /\ after = Append(IF Len(before) >= 50 THEN Tail(before) ELSE before,
                                              record)
                            /\ Len(emits') = 1
                            /\ emits'[1].name = "dice-rolled"
                            /\ emits'[1].mode = "room"
                            /\ emits'[1].room = s
                            /\ emits'[1].data = record
                            /\ persists' = <<s>>]_vars

\* a roll of no die has pushed the oldest record out of a full history, the dice state
\* being one a client stored
C40_Witness ==
    /\ last.type = "roll-dice"
    /\ NoValidDie(last.arg.diceConfig)
    /\ Len(rollLog[last.sessionId]) > 50
    /\ Len(HistoryOf(last.sessionId)) = 50
    /\ HistoryOf(last.sessionId)[50].rolls = <<>>
    /\ HistoryOf(last.sessionId)[1].timestamp < HistoryOf(last.sessionId)[50].timestamp
    /\ DiceStateOf(last.sessionId) # ZeroDiceState

====
